---- MODULE Spec2Model ----
(***************************************************************************)
(* Model of the admission and response-scheduling core of PyVal:           *)
(* PyValIRCProtocol.privmsg / _sendMessage / _handleMessage (pyvalbot.py), *)
(* AdminHandler (pyval_commands.py) and the blocking ExecBox.timed_call    *)
(* (pyval_exec.py) as seen from the single reactor thread.                 *)
(*                                                                         *)
(* Time: datetime.now() differences are kept as ages in whole seconds,     *)
(* saturating at AgeCap (no comparison in the code looks further back).    *)
(* Reactor delays are kept in hundredths of a second (0.25 s = 25).        *)
(***************************************************************************)
EXTENDS Integers, Sequences, FiniteSets, TLC

VARIABLES admin, reqs, blocked, ev, run, worker, execbox

vars == <<admin, reqs, blocked, ev, run, worker, execbox>>

(* ------------------------------------------------------------------ *)
(* Bounds of the model.                                                 *)
(* ------------------------------------------------------------------ *)
\* Number of requests privmsg schedules a response for in one behaviour of
\* Spec, SpecBan, SpecLoad and SpecLive.
MaxReq == 2
MaxBan == 4
MaxLoad == 4
MaxLive == 3
MaxErr == 4
MaxAdm == 4
MaxCrowd == 5

\* Seconds of a delayed call's remaining time the model keeps track of.
TimerCap == 1

\* Most pieces a text given to execute is made of.
MaxPieces == 3

\* Most pieces the worker's standard output and standard error are made of.
MaxOut == 4
MaxErrLines == 2

\* Calls of execute on one ExecBox in a behaviour of SpecOut, and the
\* largest limits safe_output is given.
MaxRuns == 2
MaxLines == 2
MaxLength == 3

\* Most admin commands on attributes a behaviour of SpecAttr sends.
MaxAttr == 2

\* Characters the pipe between worker and parent holds while nobody reads
\* it: the buffer of the operating system scaled down, larger than every
\* fixed message of the sandbox runner.
PipeBuf == 40
\* Seconds allowed to timed_call, after its timeout, for ending the worker.
Grace == 1

\* Identities that send messages; "adm" is the initial admin.
Nicks == {"adm", "u1"}

(* ------------------------------------------------------------------ *)
(* Program constants.                                                   *)
(* ------------------------------------------------------------------ *)
msg_timelimit == 3
banwarn_limit == 3
\* Literal of `respondsecs < 3` in privmsg.
respond_limit == 3
\* ExecBox.timeout, the seconds timed_call joins the worker for.
exec_timeout == 5
\* pastebin_chatout: safe_output(maxlines=30, maxlength=140).
paste_maxlength == 140
\* _sendMessage: timeout = 0.25, in hundredths of a second.
base_delay == 25
\* One second, in hundredths.
Second == 100

AgeCap == IF msg_timelimit > respond_limit THEN msg_timelimit ELSE respond_limit

None == "None"
NoAge == -1
\* The bot's own nickname: a message whose channel is the nickname is private.
BotNick == "pyval"
Chan == "#chan"
Channels == {Chan, BotNick}

(* ------------------------------------------------------------------ *)
(* Messages.  A message text is kept parsed the way privmsg and         *)
(* parse_command take it apart: cc = it starts with the command char,   *)
(* cmd / rest = message.lstrip(cmdchar).partition(' ').                 *)
(* ------------------------------------------------------------------ *)
Msg(cc, cmd, rest) == [cc |-> cc, cmd |-> cmd, rest |-> rest]

NoMsg == Msg(FALSE, None, "")

Messages ==
    { Msg(FALSE, "hi", ""),
      Msg(TRUE, "py", "1"), Msg(TRUE, "py", ""),
      Msg(TRUE, "time", ""), Msg(TRUE, "help", ""),
      Msg(TRUE, "limitrate", "-"), Msg(TRUE, "ban", "u1"),
      Msg(TRUE, "unban", "u1") }

\* Names for which CommandFuncs has a cmd_<name> / admin_<name> method.
CmdNames == {"py", "python", "time", "help"}
AdminNames == {"limitrate", "ban", "unban", "adminadd", "setattr",
               "getattr"}

Text(m) == (IF m.cc THEN "!" ELSE "") \o m.cmd \o
           (IF m.rest = "" THEN "" ELSE " " \o m.rest)

Range(s) == {s[i] : i \in DOMAIN s}

(* ------------------------------------------------------------------ *)
(* AdminHandler.  The record `admin` holds the attributes of the        *)
(* AdminHandler instance; banfile is the persisted ban list and lines   *)
(* counts the PRIVMSG lines the current step wrote to the transport.    *)
(* ------------------------------------------------------------------ *)
AdminInit ==
    [ admins        |-> {"adm"},
      banned        |-> <<>>,
      banned_warned |-> [n \in {} |-> [last |-> 0, count |-> 0]],
      last_handle   |-> NoAge,
      last_msg      |-> None,
      last_nick     |-> None,
      last_command  |-> NoMsg,
      limit_rate    |-> TRUE,
      blacklist     |-> FALSE,
      handlingcount |-> 0,
      handled       |-> 0,
      banfile       |-> <<>>,
      lines         |-> 0 ]

is_command(m) == m.cc

\* The ban file is taken to be writable.
ban_save(a) == [a EXCEPT !.banfile = a.banned]

\* Result of a call that changes the handler and returns a value.
Ret(a, ret) == [a |-> a, ret |-> ret]

\* ban_add without the ban_save() call: the ban is not persisted.
\* The admin file is taken to be writable.
admins_add(a, nick) ==
    IF nick \in a.admins THEN Ret(a, "already an admin: " \o nick)
    ELSE Ret([a EXCEPT !.admins = @ \cup {nick}], "added admin: " \o nick)

ban_add_unsaved(a, nick) ==
    IF nick \in a.admins THEN Ret(a, "")
    ELSE IF nick \in DOMAIN a.banned_warned THEN
        LET newcount == a.banned_warned[nick].count + 1
            a1 == [a EXCEPT !.banned_warned[nick] =
                                [last |-> 0, count |-> newcount]]
        IN  IF newcount = banwarn_limit
            THEN Ret([a1 EXCEPT !.banned = Append(@, nick)], "no more.")
            ELSE IF newcount = banwarn_limit - 1
            THEN Ret(a1, "really, slow down with your commands.")
            ELSE Ret(a1, "slow down with your commands.")
    ELSE
        Ret([a EXCEPT !.banned_warned =
                [n \in DOMAIN a.banned_warned \cup {nick} |->
                    IF n = nick THEN [last |-> 0, count |-> 1]
                    ELSE a.banned_warned[n]]],
            "slow down with your commands.")

\* ban_add comparing the new count with `>` instead of `==`: the ban comes
\* one offence late.
ban_add_late(a, nick) ==
    IF nick \in a.admins THEN Ret(a, "")
    ELSE IF nick \in DOMAIN a.banned_warned THEN
        LET newcount == a.banned_warned[nick].count + 1
            a1 == [a EXCEPT !.banned_warned[nick] =
                                [last |-> 0, count |-> newcount]]
        IN  IF newcount > banwarn_limit
            THEN Ret(ban_save([a1 EXCEPT !.banned = Append(@, nick)]),
                     "no more.")
            ELSE IF newcount = banwarn_limit - 1
            THEN Ret(a1, "really, slow down with your commands.")
            ELSE Ret(a1, "slow down with your commands.")
    ELSE
        Ret([a EXCEPT !.banned_warned =
                [n \in DOMAIN a.banned_warned \cup {nick} |->
                    IF n = nick THEN [last |-> 0, count |-> 1]
                    ELSE a.banned_warned[n]]],
            "slow down with your commands.")

ban_add(a, nick) ==
    IF nick \in a.admins THEN Ret(a, "")
    ELSE IF nick \in DOMAIN a.banned_warned THEN
        LET newcount == a.banned_warned[nick].count + 1
            a1 == [a EXCEPT !.banned_warned[nick] =
                                [last |-> 0, count |-> newcount]]
        IN  IF newcount = banwarn_limit
            THEN Ret(ban_save([a1 EXCEPT !.banned = Append(@, nick)]),
                     "no more.")
            ELSE IF newcount = banwarn_limit - 1
            THEN Ret(a1, "really, slow down with your commands.")
            ELSE Ret(a1, "slow down with your commands.")
    ELSE
        Ret([a EXCEPT !.banned_warned =
                [n \in DOMAIN a.banned_warned \cup {nick} |->
                    IF n = nick THEN [last |-> 0, count |-> 1]
                    ELSE a.banned_warned[n]]],
            "slow down with your commands.")

\* The loop of ban_addperma without the test for admins.
RECURSIVE ban_addperma_loop_admins(_, _, _)
ban_addperma_loop_admins(a, nicks, banned) ==
    IF nicks = <<>> THEN Ret(a, banned)
    ELSE LET n == Head(nicks)
         IN  IF n \notin Range(a.banned)
             THEN ban_addperma_loop_admins(
                      [a EXCEPT !.banned = Append(@, n)],
                      Tail(nicks), Append(banned, n))
             ELSE ban_addperma_loop_admins(a, Tail(nicks), banned)

\* The loop of ban_addperma without the test for nicks already banned.
RECURSIVE ban_addperma_loop_again(_, _, _)
ban_addperma_loop_again(a, nicks, banned) ==
    IF nicks = <<>> THEN Ret(a, banned)
    ELSE LET n == Head(nicks)
         IN  IF n \notin a.admins
             THEN ban_addperma_loop_again(
                      [a EXCEPT !.banned = Append(@, n)],
                      Tail(nicks), Append(banned, n))
             ELSE ban_addperma_loop_again(a, Tail(nicks), banned)

\* ban_addperma called with a list of nicks (as admin_ban calls it).
RECURSIVE ban_addperma_loop(_, _, _)
ban_addperma_loop(a, nicks, banned) ==
    IF nicks = <<>> THEN Ret(a, banned)
    ELSE LET n == Head(nicks)
         IN  IF (n \notin a.admins) /\ (n \notin Range(a.banned))
             THEN ban_addperma_loop([a EXCEPT !.banned = Append(@, n)],
                                    Tail(nicks), Append(banned, n))
             ELSE ban_addperma_loop(a, Tail(nicks), banned)

ban_addperma(a, nicks) ==
    LET r == ban_addperma_loop(a, nicks, <<>>)
    IN  IF r.ret # <<>> THEN Ret(ban_save(r.a), r.ret) ELSE Ret(r.a, <<>>)

RECURSIVE RemoveAll(_, _)
RemoveAll(s, x) ==
    IF s = <<>> THEN <<>>
    ELSE IF Head(s) = x THEN RemoveAll(Tail(s), x)
    ELSE <<Head(s)>> \o RemoveAll(Tail(s), x)

\* The loop of ban_remove without the reset of the warning count.
RECURSIVE ban_remove_loop_noreset(_, _, _)
ban_remove_loop_noreset(a, nicklst, removed) ==
    IF nicklst = <<>> THEN Ret(a, removed)
    ELSE LET nick == Head(nicklst)
         IN  IF nick \in Range(a.banned)
             THEN ban_remove_loop_noreset(
                      [a EXCEPT !.banned = RemoveAll(@, nick)],
                      Tail(nicklst), Append(removed, nick))
             ELSE ban_remove_loop_noreset(a, Tail(nicklst), removed)

RECURSIVE ban_remove_loop(_, _, _)
ban_remove_loop(a, nicklst, removed) ==
    IF nicklst = <<>> THEN Ret(a, removed)
    ELSE LET nick == Head(nicklst)
         IN  IF nick \in Range(a.banned)
             THEN LET a1 == [a EXCEPT !.banned = RemoveAll(@, nick)]
                      a2 == IF nick \in DOMAIN a1.banned_warned
                            THEN [a1 EXCEPT !.banned_warned[nick] =
                                            [last |-> 0, count |-> 0]]
                            ELSE a1
                  IN  ban_remove_loop(a2, Tail(nicklst), Append(removed, nick))
             ELSE ban_remove_loop(a, Tail(nicklst), removed)

ban_remove(a, nicklst) ==
    IF nicklst = <<>> THEN Ret(a, <<>>)
    ELSE LET r == ban_remove_loop(a, nicklst, <<>>)
         IN  Ret(ban_save(r.a), r.ret)

\* handling_decrease without the `> 0` test.
handling_decrease_unguarded(a) == [a EXCEPT !.handlingcount = @ - 1]

handling_decrease(a) ==
    IF a.handlingcount > 0
    THEN [a EXCEPT !.handlingcount = @ - 1]
    ELSE a

handling_increase(a) == [a EXCEPT !.handlingcount = @ + 1]

sendmsg(a, target, msgtext) ==
    IF <<a.last_nick, a.last_msg>> # <<target, msgtext>>
    THEN [a EXCEPT !.lines = @ + 1, !.last_nick = target, !.last_msg = msgtext]
    ELSE a

\* sendmsg_toadmins iterates over the set self.admins: every order is possible.
RECURSIVE sendmsg_toadmins_loop(_, _, _, _)
sendmsg_toadmins_loop(a, todo, msg, fromnick) ==
    IF todo = {} THEN {a}
    ELSE UNION { sendmsg_toadmins_loop(
                     IF fromnick # adminnick THEN sendmsg(a, adminnick, msg)
                     ELSE a,
                     todo \ {adminnick}, msg, fromnick)
                 : adminnick \in todo }

sendmsg_toadmins(a, msgtext, fromnick) ==
    LET msg == fromnick \o ": " \o msgtext
    IN  sendmsg_toadmins_loop(a, a.admins, msg, fromnick)

(* ------------------------------------------------------------------ *)
(* Reactor state.                                                       *)
(* ------------------------------------------------------------------ *)
\* The time left of a delayed call is kept up to TimerCap seconds: a call
\* with more left than that is treated as having TimerCap seconds left.
Left(t) == IF t > TimerCap * Second THEN TimerCap * Second ELSE t

\* A delayed call of the reactor (callLater / deferLater) made for a request.
\*   st = "deferred"  : the handler returned a Deferred that has not fired
\*   st = "scheduled" : _sendMessage has called reactor.callLater
\*   st = "delivered" : _handleMessage has run
\* nick is the sender the response is for, msg the payload ("" for none),
\* remaining what is left of the delay given to callLater / deferLater,
\* calls the number of _handleMessage calls made for it.
Req(st, nick, msg, remaining, calls) ==
    [st |-> st, nick |-> nick, msg |-> msg,
     remaining |-> Left(remaining), calls |-> calls]

NoReq == Req("none", None, "", 0, 0)

\* Where the reactor thread is: idle (between callbacks), or inside
\* privmsg -> cmd_python -> ExecBox.execute -> timed_call, which waits in
\* execproc.join(timeout) ("join") or in piperecv.recv() ("recv").
Blocked(phase, nick, channel, message, elapsed) ==
    [phase |-> phase, nick |-> nick, channel |-> channel,
     message |-> message, elapsed |-> elapsed]

Idle == Blocked("idle", None, None, NoMsg, 0)

\* What the last step did (history, read by the properties only).
\*   op       : "privmsg", "handle" (_handleMessage), "fired", "tick", "crash"
\*   nick,msg : the sender and the message given to privmsg
\*   decision : what privmsg did with it ("banned", "dup", "nofunc", "busy",
\*              "admitted", or "running" while cmd_python is in timed_call)
\*   reply    : privmsg: ban_msg ("" for None); handle: the msg delivered
\*   ran      : privmsg called the command's handler
\*   seen     : privmsg: self.admin.handlingcount as the handler could read
\*              it; handle: handlingcount before handling_decrease
\*   id       : the request scheduled, fired or delivered (0 for none)
\*   delay    : the delay _sendMessage gave reactor.callLater (0 for none)
\*   kind     : what the handler gave maybeDeferred ("value", "raise",
\*              "deferred"; "none" when no handler has returned)
Ev(op, nick, message, decision, reply, ran, seen, id, delay, kind) ==
    [op |-> op, nick |-> nick, msg |-> message, decision |-> decision,
     reply |-> reply, ran |-> ran, seen |-> seen, id |-> id, delay |-> delay,
     kind |-> kind]

NoEv(op, id, delay) ==
    Ev(op, None, NoMsg, "none", "", FALSE, -1, id, delay, "none")

Outcome(a, req, blk, e) == [a |-> a, req |-> req, blocked |-> blk, ev |-> e]

(* ------------------------------------------------------------------ *)
(* CommandHandler / CommandFuncs.                                       *)
(* ------------------------------------------------------------------ *)
\* parse_command without the test of the sender against the admin set.
parse_command_anyone(a, m, username) ==
    LET func == IF m.cmd \in CmdNames THEN "cmd_" \o m.cmd ELSE None
    IN  IF username # None /\ m.cmd \in AdminNames
        THEN "admin_" \o m.cmd
        ELSE func

parse_command(a, m, username) ==
    LET func == IF m.cmd \in CmdNames THEN "cmd_" \o m.cmd ELSE None
    IN  IF username # None /\ username \in a.admins /\ m.cmd \in AdminNames
        THEN "admin_" \o m.cmd
        ELSE func

\* Set of possible [a, ret]: ret is the handler name or None.
parse_data(a, nick, channel, m) ==
    LET as == IF channel = BotNick /\ ~m.cc
              THEN sendmsg_toadmins(a, Text(m), nick)
              ELSE {a}
    IN  { Ret(a1, IF m.cc THEN parse_command(a1, m, nick) ELSE None)
          : a1 \in as }

\* What a handler call gives maybeDeferred:
\*   kind "value"    : it returned val ("" stands for None / no payload)
\*   kind "raise"    : it raised; val is the error message
\*   kind "deferred" : it returned a Deferred firing after `wait`
\*   kind "block"    : it is inside timed_call (cmd_python only)
Res(a, kind, val, wait) == [a |-> a, kind |-> kind, val |-> val, wait |-> wait]

admin_limitrate(a, rest) ==
    LET status(ax) == "limitrate enabled: " \o
                      (IF ax.limit_rate THEN "True" ELSE "False")
        toggled == [a EXCEPT !.limit_rate = ~a.limit_rate]
    IN  IF rest = "?" \/ rest = "" THEN Res(a, "value", status(a), 0)
        ELSE IF rest = "-" THEN Res(toggled, "value", status(toggled), 0)
        ELSE Res(a, "value",
                 "invalid value for limitrate option (true/false).", 0)

\* rest.split(' ') for the argument texts the messages of the model carry.
split(rest) ==
    IF rest = "" THEN <<>>
    ELSE IF rest = "u1 adm" THEN <<"u1", "adm">>
    ELSE <<rest>>

\* sep.join(parts)
RECURSIVE join(_, _)
join(sep, parts) ==
    IF parts = <<>> THEN ""
    ELSE IF Len(parts) = 1 THEN parts[1]
    ELSE parts[1] \o sep \o join(sep, Tail(parts))

\* [x for x in s if x in keep] / [x for x in s if x not in drop]
Only(s, keep) == SelectSeq(s, LAMBDA x : x \in keep)
Without(s, drop) == SelectSeq(s, LAMBDA x : x \notin drop)

admin_adminadd(a, rest) ==
    LET r == admins_add(a, rest) IN Res(r.a, "value", r.ret, 0)

admin_ban(a, rest) ==
    IF rest = "" THEN Res(a, "value", "usage: !ban <nick>", 0)
    ELSE LET nicks == split(rest)
             alreadybanned == Only(nicks, Range(a.banned))
             r == ban_addperma(a, nicks)
             banned == r.ret
             notbanned == Without(nicks,
                                  Range(banned) \cup Range(alreadybanned))
             msg == (IF banned # <<>>
                     THEN <<"banned: " \o join(", ", banned)>> ELSE <<>>)
                    \o (IF alreadybanned # <<>>
                        THEN <<"already banned: "
                               \o join(", ", alreadybanned)>> ELSE <<>>)
                    \o (IF notbanned # <<>>
                        THEN <<"unable to ban: " \o join(", ", notbanned)>>
                        ELSE <<>>)
         IN  Res(r.a, "value", join(", ", msg), 0)

admin_unban(a, rest) ==
    IF rest = "" THEN Res(a, "value", "usage: !unban <nick>", 0)
    ELSE LET nicks == split(rest)
             r == ban_remove(a, nicks)
             unbanned == r.ret
             notbanned == Without(nicks, Range(unbanned))
         IN  Res(r.a, "value",
                 IF unbanned # <<>>
                 THEN join(", ",
                           <<"unbanned: " \o join(", ", unbanned)>>
                           \o (IF notbanned # <<>>
                               THEN <<"not banned: "
                                      \o join(", ", notbanned)>>
                               ELSE <<>>))
                 ELSE IF notbanned # <<>>
                 THEN "not banned: " \o join(", ", notbanned)
                 ELSE "unable to unban: " \o rest, 0)

\* get_help indexes the help file's dict; helpok = FALSE is a file without
\* the role key, on which get_help raises KeyError('user').
cmd_help(a, nick, helpok) ==
    IF helpok THEN Res(sendmsg(a, nick, "help"), "value", "", 0)
    ELSE Res(a, "raise", "'user'", 0)

cmd_time(a) == Res(a, "value", "time", 0)

\* cmd_python up to the call of execbox.execute.
cmd_python(a, rest) ==
    IF rest = "" THEN Res(a, "value", "", 0)
    ELSE Res(a, "block", "", 0)

(* ------------------------------------------------------------------ *)
(* Python strings.  TLC's strings are sequences of characters: Len,     *)
(* SubSeq and \o give len(), slices and concatenation.                  *)
(* ------------------------------------------------------------------ *)
\* Every concatenation of at most k of the pieces.
RECURSIVE Texts(_, _)
Texts(pieces, k) ==
    IF k = 0 THEN {""}
    ELSE LET shorter == Texts(pieces, k - 1)
         IN  shorter \cup {t \o p : t \in shorter, p \in pieces}

\* s[:n]
Upto(s, n) == SubSeq(s, 1, IF Len(s) < n THEN Len(s) ELSE n)

\* s[i:] (0-based i)
From(s, i) == SubSeq(s, i + 1, Len(s))

startswith(s, prefix) ==
    Len(prefix) <= Len(s) /\ SubSeq(s, 1, Len(prefix)) = prefix

endswith(s, suffix) ==
    Len(suffix) <= Len(s) /\ From(s, Len(s) - Len(suffix)) = suffix

\* sub in s
contains(s, sub) ==
    \E i \in 0..(Len(s) - Len(sub)) : startswith(From(s, i), sub)

\* s.replace(old, new): leftmost occurrences, not overlapping.
RECURSIVE replace(_, _, _)
replace(s, old, new) ==
    IF Len(s) < Len(old) THEN s
    ELSE IF startswith(s, old)
         THEN new \o replace(From(s, Len(old)), old, new)
         ELSE SubSeq(s, 1, 1) \o replace(From(s, 1), old, new)

\* s.strip(chars); chars is a set of characters.
RECURSIVE lstrip(_, _)
lstrip(s, chars) ==
    IF s # "" /\ SubSeq(s, 1, 1) \in chars THEN lstrip(From(s, 1), chars)
    ELSE s

RECURSIVE rstrip(_, _)
rstrip(s, chars) ==
    IF s # "" /\ From(s, Len(s) - 1) \in chars
    THEN rstrip(SubSeq(s, 1, Len(s) - 1), chars)
    ELSE s

strip(s, chars) == rstrip(lstrip(s, chars), chars)

\* The characters s.strip() without argument removes.
Whitespace == {" ", "\t", "\n", "\r", "\f"}

\* s.split(sep)
RECURSIVE str_split(_, _)
str_split(s, sep) ==
    LET n == Len(sep)
        at == {j \in 1..(Len(s) - n + 1) : SubSeq(s, j, j + n - 1) = sep}
    IN  IF at = {} THEN <<s>>
        ELSE LET i == CHOOSE j \in at : \A k \in at : j <= k
             IN  <<SubSeq(s, 1, i - 1)>> \o
                 str_split(From(s, i + n - 1), sep)

(* ExecBox.  The record holds the attributes output and lasterror. *)
ExecBox(output, lasterror) == [output |-> output, lasterror |-> lasterror]

\* error_return setting lasterror only.
error_return_lasterror(s) == ExecBox("", s)

error_return(s) == ExecBox(s, s)

\* timed_call raising TimedOut without ending the worker.
timed_call_noterminate(outcome) ==
    CASE outcome = "sent" ->
            [kind |-> "return", val |-> "result", worker |-> "exited"]
      [] outcome = "alive" ->
            [kind |-> "TimedOut", val |-> "Operation timed out.",
             worker |-> "alive"]
      [] outcome = "failed" ->
            [kind |-> "Exception", val |-> "cannot start process",
             worker |-> "none"]

\* timed_call once execproc.join(timeout) has returned.  outcome is what
\* the worker did: "sent" (it sent its result and exited), "alive" (it is
\* still running), "failed" (execproc.start() raised).  worker is the state
\* of the process when timed_call returns or raises.  (A worker that exited
\* without sending leaves timed_call in piperecv.recv(): WorkerCrash.)
timed_call(outcome) ==
    CASE outcome = "sent" ->
            [kind |-> "return", val |-> "result", worker |-> "exited"]
      [] outcome = "alive" ->
            [kind |-> "TimedOut", val |-> "Operation timed out.",
             worker |-> "terminated"]
      [] outcome = "failed" ->
            [kind |-> "Exception", val |-> "cannot start process",
             worker |-> "none"]

\* execute from the timed_call on, with raw_output=True: the ExecBox it
\* leaves (its return value is the box's output).
execute(tc) ==
    CASE tc.kind = "return"    -> ExecBox(tc.val, None)
      [] tc.kind = "TimedOut"  -> error_return("Error: Operation timed out.")
      [] tc.kind = "Exception" -> error_return("PyVal Error: " \o tc.val)

\* str(n) for n >= 0
RECURSIVE str(_)
str(n) ==
    IF n < 10 THEN SubSeq("0123456789", n + 1, n + 1)
    ELSE str(n \div 10) \o str(n % 10)

\* A line cut to maxlength without the inline marker.
TrimLine_nomarker(line, maxlength) ==
    IF Len(line) > maxlength THEN SubSeq(line, 1, maxlength) ELSE line

\* line[:maxlength] with the inline marker, for a line that is too long.
TrimLine(line, maxlength) ==
    IF Len(line) > maxlength
    THEN SubSeq(line, 1, maxlength) \o " (..truncated)"
    ELSE line

\* safe_output(maxlines, maxlength) of the ExecBox `box`.
safe_output(box, maxlines, maxlength) ==
    LET iserror == box.lasterror \notin {None, ""}
        lines == str_split(IF iserror THEN box.lasterror ELSE box.output,
                           "\n")
        kept == Append(SubSeq(lines, 1, maxlines),
                       "(...truncated at " \o str(maxlines) \o " lines.)")
        oneliner ==
            IF maxlines > 0 /\ Len(lines) > maxlines
            THEN IF maxlength > 0
                 THEN join("\\n", [i \in DOMAIN kept |->
                                       TrimLine(kept[i], maxlength)])
                 ELSE join("\\n", kept)
            ELSE IF maxlength > 0 /\ Len(box.output) > maxlength
                 THEN SubSeq(join("\\n", lines), 1, maxlength)
                          \o " (...truncated)"
            ELSE join("\\n", lines)
    IN  IF ~iserror /\ box.output = "" THEN "No output."
        ELSE IF iserror THEN "error: " \o oneliner
        ELSE oneliner

\* safe_output() with the ExecBox defaults maxlines = maxlength = 0, for
\* the texts of one line that the evaluations of the reactor model give.
safe_output_oneline(box) ==
    IF box.lasterror # None THEN "error: " \o box.lasterror
    ELSE IF box.output # "" THEN box.output
    ELSE "No output."

\* cmd_python after execbox.execute returned; long = the raw results are
\* longer than 160 characters.
cmd_python_after(a, box, long) ==
    IF long
    THEN IF a.handlingcount > 1
         THEN Res(a, "deferred", "", 3 * a.handlingcount * Second)
         ELSE Res(a, "value", "paste: " \o safe_output_oneline(box), 0)
    ELSE Res(a, "value", safe_output_oneline(box), 0)

\* s.partition(sep)
partition(s, sep) ==
    IF contains(s, sep)
    THEN LET i == CHOOSE j \in 0..(Len(s) - Len(sep)) :
                     /\ startswith(From(s, j), sep)
                     /\ \A k \in 0..(j - 1) : ~startswith(From(s, k), sep)
         IN  <<SubSeq(s, 1, i), sep, From(s, i + Len(sep))>>
    ELSE <<s, "", "">>

\* s.lower()
RECURSIVE lower(_)
lower(s) ==
    LET upper == "ABCDEFGHIJKLMNOPQRSTUVWXYZ"
        small == "abcdefghijklmnopqrstuvwxyz"
        c == SubSeq(s, 1, 1)
        at == {i \in 1..Len(upper) : SubSeq(upper, i, i) = c}
    IN  IF s = "" THEN ""
        ELSE (IF at = {} THEN c
              ELSE LET i == CHOOSE j \in at : TRUE
                   IN  SubSeq(small, i, i))
             \o lower(From(s, 1))

\* str(value) of a bool
str_bool(b) == IF b THEN "True" ELSE "False"

\* The boolean attributes of the AdminHandler that the record holds.
BoolAttrs == {"blacklist", "limit_rate"}

\* parse_attrstr walks from the CommandFuncs instance, which has the
\* attribute admin; of the AdminHandler the boolean attributes are
\* followed.  `name` is None when an attribute of the path is missing.
parse_attrstr(a, attrstr) ==
    LET attrs == str_split(attrstr, ".")
    IN  IF Len(attrs) = 2 /\ attrs[1] = "admin" /\ attrs[2] \in BoolAttrs
        THEN [name |-> attrs[2], val |-> a[attrs[2]]]
        ELSE [name |-> None, val |-> FALSE]

\* make_bool reading 'true' and '1' as True and everything else as False.
make_bool_truewords(s) == lower(s) \in {"true", "1"}

\* parse_typestr for an old value that is a bool (make_bool).
make_bool(s) ==
    IF lower(s) \in {"false", "0"} THEN FALSE ELSE s # ""

admin_getattr(a, rest) ==
    LET found == parse_attrstr(a, rest)
    IN  IF rest = "" THEN Res(a, "value", "usage: !getattr <attribute>", 0)
        ELSE IF found.name = None
        THEN Res(a, "value", "no attribute named: " \o rest, 0)
        ELSE Res(a, "value", rest \o " = " \o str_bool(found.val), 0)

admin_setattr(a, rest) ==
    LET usagestr == "usage: setattr <attribute> <val>"
        parts == partition(rest, " ")
        attrstr == parts[1]
        valstr == parts[3]
        found == parse_attrstr(a, attrstr)
        newval == make_bool(valstr)
    IN  IF rest = "" THEN Res(a, "value", usagestr, 0)
        ELSE IF valstr = ""
        THEN Res(a, "value", "No arguments, " \o usagestr, 0)
        ELSE IF found.name = None
        THEN Res(a, "value", "no attribute named: " \o attrstr, 0)
        ELSE Res([a EXCEPT ![found.name] = newval], "value",
                 attrstr \o " = " \o str_bool(newval), 0)

\* The handler `func` called with (rest, nick=nick).
CallHandler(a, func, rest, nick, helpok) ==
    CASE func = "admin_limitrate" -> admin_limitrate(a, rest)
      [] func = "admin_ban"       -> admin_ban(a, rest)
      [] func = "admin_unban"     -> admin_unban(a, rest)
      [] func = "admin_adminadd"  -> admin_adminadd(a, rest)
      [] func = "admin_setattr"   ->
            admin_setattr(a, strip(rest, Whitespace))
      [] func = "admin_getattr"   ->
            admin_getattr(a, strip(rest, Whitespace))
      [] func = "cmd_help"        -> cmd_help(a, nick, helpok)
      [] func = "cmd_time"        -> cmd_time(a)
      [] func \in {"cmd_py", "cmd_python"} -> cmd_python(a, rest)

(* ------------------------------------------------------------------ *)
(* PyValIRCProtocol.                                                    *)
(* ------------------------------------------------------------------ *)
_showError(errmsg) == "PyVal Error: " \o errmsg

\* _sendMessage without the `if msg:` test: a response without payload is
\* delayed under load like any other.
_sendMessage_anymsg(a, msg) ==
    IF a.handlingcount > 1
    THEN 2 * a.handlingcount * Second
    ELSE base_delay

\* _sendMessage: the delay it gives reactor.callLater.
_sendMessage(a, msg) ==
    IF a.handlingcount > 1 /\ msg # ""
    THEN 2 * a.handlingcount * Second
    ELSE base_delay

\* _handleMessage: send the message, decrease the handling count,
\* increase the handled count.
_handleMessage(a, msg) ==
    LET a1 == IF msg # "" THEN [a EXCEPT !.lines = @ + 1] ELSE a
        a2 == handling_decrease(a1)
    IN  [a2 EXCEPT !.handled = @ + 1]

\* The tail of privmsg with the ceiling one request higher.
privmsg_tail_lateceiling(a, nick, channel, m, d, is_admin, ban_msg, seen, nextid) ==
    IF a.limit_rate /\ (~is_admin) /\ a.handlingcount > banwarn_limit + 1
    THEN Outcome(a, NoReq, Idle,
                 Ev("privmsg", nick, m, "busy", ban_msg, ban_msg = "", seen,
                    0, 0, IF ban_msg = "" THEN d.kind ELSE "none"))
    ELSE LET a1 == IF a.limit_rate THEN handling_increase(a) ELSE a
             val == IF d.kind = "raise" THEN _showError(d.val) ELSE d.val
             timeout == IF d.kind = "deferred" THEN 0
                        ELSE _sendMessage(a1, val)
             req == IF d.kind = "deferred"
                    THEN Req("deferred", nick, "", d.wait, 0)
                    ELSE Req("scheduled", nick, val, timeout, 0)
             a2 == [a1 EXCEPT !.last_handle = 0, !.last_nick = nick]
         IN  Outcome(a2, req, Idle,
                     Ev("privmsg", nick, m, "admitted", ban_msg, ban_msg = "",
                        seen, nextid, timeout,
                        IF ban_msg = "" THEN d.kind ELSE "none"))

\* privmsg from `if self.admin.limit_rate:` to its end; d is the Deferred
\* built from the ban message or from the handler's result.
privmsg_tail(a, nick, channel, m, d, is_admin, ban_msg, seen, nextid) ==
    IF a.limit_rate /\ (~is_admin) /\ a.handlingcount > banwarn_limit
    THEN Outcome(a, NoReq, Idle,
                 Ev("privmsg", nick, m, "busy", ban_msg, ban_msg = "", seen,
                    0, 0, IF ban_msg = "" THEN d.kind ELSE "none"))
    ELSE LET a1 == IF a.limit_rate THEN handling_increase(a) ELSE a
             val == IF d.kind = "raise" THEN _showError(d.val) ELSE d.val
             timeout == IF d.kind = "deferred" THEN 0
                        ELSE _sendMessage(a1, val)
             req == IF d.kind = "deferred"
                    THEN Req("deferred", nick, "", d.wait, 0)
                    ELSE Req("scheduled", nick, val, timeout, 0)
             a2 == [a1 EXCEPT !.last_handle = 0, !.last_nick = nick]
         IN  Outcome(a2, req, Idle,
                     Ev("privmsg", nick, m, "admitted", ban_msg, ban_msg = "",
                        seen, nextid, timeout,
                        IF ban_msg = "" THEN d.kind ELSE "none"))

\* The ban check looking at the warning counts instead of the ban list: a
\* nick banned by an admin is not recognised.
is_banned_bycount(a, nick) ==
    /\ nick \in DOMAIN a.banned_warned
    /\ a.banned_warned[nick].count >= banwarn_limit

\* `if nick in self.admin.banned` of privmsg.
is_banned(a, nick) == nick \in Range(a.banned)

\* The duplicate check without the admin exemption.
is_duplicate_anyone(a, m, is_admin) == m = a.last_command

\* `if (message == self.admin.last_command) and (not is_admin)` of privmsg.
is_duplicate(a, m, is_admin) == m = a.last_command /\ ~is_admin

\* The auto-ban block counting a warned nick's command only when that nick
\* was also the previous respondent.
privmsg_autoban_samenick(a, nick, m) ==
    IF a.last_handle # NoAge /\ a.last_nick # None /\ is_command(m)
    THEN IF nick \in DOMAIN a.banned_warned
         THEN IF a.banned_warned[nick].last < msg_timelimit
                 /\ nick = a.last_nick
              THEN ban_add(a, nick)
              ELSE Ret([a EXCEPT !.banned_warned[nick].last = 0], "")
         ELSE IF nick = a.last_nick /\ a.last_handle < respond_limit
              THEN ban_add(a, nick)
              ELSE Ret(a, "")
    ELSE Ret(a, "")

\* The auto-ban block of privmsg: [a, ret] with ret = ban_msg ("" for None).
privmsg_autoban(a, nick, m) ==
    IF a.last_handle # NoAge /\ a.last_nick # None /\ is_command(m)
    THEN IF nick \in DOMAIN a.banned_warned
         THEN IF a.banned_warned[nick].last < msg_timelimit
              THEN ban_add(a, nick)
              ELSE Ret([a EXCEPT !.banned_warned[nick].last = 0], "")
         ELSE IF nick = a.last_nick /\ a.last_handle < respond_limit
              THEN ban_add(a, nick)
              ELSE Ret(a, "")
    ELSE Ret(a, "")

\* privmsg(user, channel, message): the set of its possible outcomes.
privmsg(a0, nick, channel, m, helpok, nextid) ==
    LET a == [a0 EXCEPT !.lines = 0]
        is_admin == nick \in a.admins
        quiet(ax, decision) ==
            Outcome(ax, NoReq, Idle,
                    Ev("privmsg", nick, m, decision, "", FALSE, -1, 0, 0,
                       "none"))
    IN  IF is_banned(a, nick) THEN {quiet(a, "banned")}
        ELSE
        LET b == privmsg_autoban(a, nick, m)
        IN  IF b.ret # ""
            THEN {privmsg_tail(b.a, nick, channel, m,
                               Res(b.a, "value", b.ret, 0),
                               is_admin, b.ret, -1, nextid)}
            ELSE IF is_duplicate(b.a, m, is_admin)
            THEN {quiet(b.a, "dup")}
            ELSE
            { IF p.ret = None THEN quiet(p.a, "nofunc")
              ELSE LET a1 == [p.a EXCEPT !.last_command = m]
                       seen == a1.handlingcount
                       d == CallHandler(a1, p.ret, m.rest, nick, helpok)
                   IN  IF d.kind = "block"
                       THEN Outcome(d.a, NoReq,
                                    Blocked("join", nick, channel, m, 0),
                                    Ev("privmsg", nick, m, "running",
                                       "", TRUE, seen, 0, 0, "none"))
                       ELSE privmsg_tail(d.a, nick, channel, m, d,
                                         is_admin, "", seen, nextid)
              : p \in parse_data(b.a, nick, channel, m) }

(* ------------------------------------------------------------------ *)
(* History of the tracked identities (read by the properties only).     *)
(* A run of an identity is a sequence of its commands, each less than   *)
(* msg_timelimit seconds after the previous one, with no other message  *)
(* processed by privmsg in between.                                     *)
(*   sent : length of the run that starts at the identity's first       *)
(*          command ever (0 before it, -1 once that run is broken)      *)
(*   k    : length of the run that starts at the identity's first       *)
(*          command that privmsg scheduled a response for (0 before it, *)
(*          -1 once that run is broken)                                 *)
(*   gap  : seconds since its previous command (up to AgeCap)           *)
(* ------------------------------------------------------------------ *)
Tracked == Nicks \ AdminInit.admins

RunCap == banwarn_limit + 2

RunInit == [n \in Tracked |-> [sent |-> 0, k |-> 0, gap |-> 0]]

RunStep(len, gap) ==
    IF gap >= msg_timelimit THEN -1
    ELSE IF len < RunCap THEN len + 1 ELSE RunCap

RunAfter(r, nick, m, decision) ==
    [n \in Tracked |->
        IF n = nick /\ m.cc
        THEN [sent |-> IF r[n].sent = 0 THEN 1
                       ELSE IF r[n].sent = -1 THEN -1
                       ELSE RunStep(r[n].sent, r[n].gap),
              k    |-> IF r[n].k = 0
                       THEN (IF decision = "admitted" THEN 1 ELSE 0)
                       ELSE IF r[n].k = -1 THEN -1
                       ELSE RunStep(r[n].k, r[n].gap),
              gap  |-> 0]
        ELSE [sent |-> IF r[n].sent = 0 THEN 0 ELSE -1,
              k    |-> IF r[n].k = 0 THEN 0 ELSE -1,
              gap  |-> 0]]

RunOlder(r) ==
    [n \in Tracked |->
        IF (r[n].sent > 0 \/ r[n].k > 0) /\ r[n].gap < AgeCap
        THEN [r[n] EXCEPT !.gap = @ + 1] ELSE r[n]]

(* ------------------------------------------------------------------ *)
(* Actions.                                                             *)
(* ------------------------------------------------------------------ *)
\* The bot after construction, no ExecBox made yet.
Reactor ==
    /\ admin = AdminInit
    /\ reqs = <<>>
    /\ blocked = Idle
    /\ ev = NoEv("init", 0, 0)
    /\ run = RunInit
    /\ worker = "none"

Init ==
    /\ Reactor
    /\ execbox = None

\* An inbound message is handed to privmsg.
Privmsg(nick, channel, m, helpok, max) ==
    /\ blocked.phase = "idle"
    /\ \E o \in privmsg(admin, nick, channel, m, helpok, Len(reqs) + 1) :
          /\ (o.req # NoReq \/ o.blocked # Idle) => Len(reqs) < max
          /\ admin' = o.a
          /\ reqs' = IF o.req = NoReq THEN reqs ELSE Append(reqs, o.req)
          /\ blocked' = o.blocked
          /\ ev' = o.ev
          /\ worker' = IF o.blocked.phase = "join" THEN "alive" ELSE worker

\* The rest of privmsg once timed_call has ended with `tc`.
PythonReturns(tc, long) ==
    LET b == blocked
        is_admin == b.nick \in admin.admins
        a == admin
        d == cmd_python_after(a, execute(tc), long)
        o == privmsg_tail(d.a, b.nick, b.channel, b.message, d,
                          is_admin, "", a.handlingcount, Len(reqs) + 1)
    IN  /\ admin' = o.a
        /\ reqs' = IF o.req = NoReq THEN reqs ELSE Append(reqs, o.req)
        /\ blocked' = Idle
        /\ ev' = o.ev
        /\ worker' = tc.worker

\* The worker sent its result and exited before the timeout.
WorkerFinish(long) ==
    /\ blocked.phase = "join"
    /\ PythonReturns(timed_call("sent"), long)

\* The worker is still alive when join(timeout) returns: timed_call ends
\* it and raises TimedOut.
WorkerTimeout ==
    /\ blocked.phase = "join"
    /\ blocked.elapsed = exec_timeout
    /\ PythonReturns(timed_call("alive"), FALSE)

\* execproc.start() raises (the process cannot be created).
WorkerStartFails ==
    /\ blocked.phase = "join"
    /\ blocked.elapsed = 0
    /\ PythonReturns(timed_call("failed"), FALSE)

\* The worker exited without sending: join returns, piperecv.recv() waits.
WorkerCrash ==
    /\ blocked.phase = "join"
    /\ blocked' = [blocked EXCEPT !.phase = "recv"]
    /\ ev' = NoEv("crash", 0, 0)
    /\ worker' = "exited"
    /\ UNCHANGED <<admin, reqs>>

\* The longest wait of timed_call the model keeps apart.
ElapsedCap == exec_timeout + Grace + 1

Older(age) == IF age = NoAge \/ age >= AgeCap THEN age ELSE age + 1

Less(t) == IF t > Second THEN t - Second ELSE 0

\* Time passing with warnings that expire: an entry older than the time
\* limit is dropped.
TickExpires ==
    /\ ~(blocked.phase = "join" /\ blocked.elapsed = exec_timeout)
    /\ admin' = [admin EXCEPT
                   !.lines = 0,
                   !.last_handle = Older(@),
                   !.banned_warned =
                       [n \in {x \in DOMAIN @ : @[x].last < msg_timelimit}
                           |-> [@[n] EXCEPT !.last = Older(@)]]]
    /\ reqs' = [i \in DOMAIN reqs |->
                   [reqs[i] EXCEPT !.remaining = Less(@)]]
    /\ blocked' = IF blocked.phase # "idle" /\ blocked.elapsed < ElapsedCap
                  THEN [blocked EXCEPT !.elapsed = @ + 1]
                  ELSE blocked
    /\ ev' = NoEv("tick", 0, 0)
    /\ worker' = worker

\* One second passes.
Tick ==
    /\ ~(blocked.phase = "join" /\ blocked.elapsed = exec_timeout)
    /\ admin' = [admin EXCEPT
                   !.lines = 0,
                   !.last_handle = Older(@),
                   !.banned_warned =
                       [n \in DOMAIN @ |-> [@[n] EXCEPT !.last = Older(@)]]]
    /\ reqs' = [i \in DOMAIN reqs |->
                   [reqs[i] EXCEPT !.remaining = Less(@)]]
    /\ blocked' = IF blocked.phase # "idle" /\ blocked.elapsed < ElapsedCap
                  THEN [blocked EXCEPT !.elapsed = @ + 1]
                  ELSE blocked
    /\ ev' = NoEv("tick", 0, 0)
    /\ worker' = worker

\* The Deferred a handler returned fires (deferLater of print_topastebin,
\* then pastebin_chatout), and its _sendMessage callback runs.
DeferredFires(id) ==
    /\ blocked.phase = "idle"
    /\ id \in DOMAIN reqs
    /\ reqs[id].st = "deferred"
    /\ reqs[id].remaining = 0
    /\ LET r == reqs[id]
           a == [admin EXCEPT !.lines = 0]
           chatout == "paste: result"
           timeout == _sendMessage(a, chatout)
       IN  /\ reqs' = [reqs EXCEPT ![id] =
                          Req("scheduled", r.nick, chatout, timeout, 0)]
           /\ admin' = a
           /\ ev' = NoEv("fired", id, timeout)
    /\ blocked' = blocked
    /\ worker' = worker

\* A callLater entry made by _sendMessage comes due: _handleMessage runs.
HandleMessage(id) ==
    /\ blocked.phase = "idle"
    /\ id \in DOMAIN reqs
    /\ reqs[id].st = "scheduled"
    /\ reqs[id].remaining < Second
    /\ LET r == reqs[id]
           a == [admin EXCEPT !.lines = 0]
       IN  /\ admin' = _handleMessage(a, r.msg)
           /\ reqs' = [reqs EXCEPT ![id] =
                          Req("delivered", None, "", 0, r.calls + 1)]
           /\ ev' = Ev("handle", None, NoMsg, "none", r.msg, FALSE,
                       a.handlingcount, id, 0, "none")
    /\ blocked' = blocked
    /\ worker' = worker

(* ------------------------------------------------------------------ *)
(* Specifications: the same operations over different inputs.           *)
(* ------------------------------------------------------------------ *)
PyMsg == Msg(TRUE, "py", "1")
PyNone == Msg(TRUE, "py", "")
TimeMsg == Msg(TRUE, "time", "")
HelpMsg == Msg(TRUE, "help", "")
HiMsg == Msg(FALSE, "hi", "")
LimitMsg == Msg(TRUE, "limitrate", "-")
BanMsg == Msg(TRUE, "ban", "u1")
UnbanMsg == Msg(TRUE, "unban", "u1")
BanBothMsg == Msg(TRUE, "ban", "u1 adm")
AdminAddMsg == Msg(TRUE, "adminadd", "u1")

\* Spec: evaluation requests, plain commands and limitrate toggles.
Next ==
    \/ \E nick \in Nicks, channel \in Channels,
          m \in {HiMsg, PyMsg, PyNone, TimeMsg, LimitMsg, BanMsg} :
          Privmsg(nick, channel, m, TRUE, MaxReq) /\ UNCHANGED <<run, execbox>>
    \/ \E long \in BOOLEAN : WorkerFinish(long) /\ UNCHANGED <<run, execbox>>
    \/ WorkerTimeout /\ UNCHANGED <<run, execbox>>
    \/ WorkerStartFails /\ UNCHANGED <<run, execbox>>
    \/ WorkerCrash /\ UNCHANGED <<run, execbox>>
    \/ Tick /\ UNCHANGED <<run, execbox>>
    \/ \E id \in 1..MaxReq : HandleMessage(id) /\ UNCHANGED <<run, execbox>>

Spec == Init /\ [][Next]_vars

\* SpecBan: the warn/ban machine, with admin bans and unbans.
NextBan ==
    \/ \E nick \in Nicks, m \in {HiMsg, TimeMsg, UnbanMsg} :
          /\ Privmsg(nick, IF m.cc THEN Chan ELSE BotNick, m, TRUE, MaxBan)
          /\ run' = RunAfter(run, nick, m, ev'.decision)
          /\ UNCHANGED execbox
    \/ Tick /\ run' = RunOlder(run) /\ UNCHANGED execbox
    \/ \E id \in 1..MaxBan : HandleMessage(id) /\ UNCHANGED <<run, execbox>>

SpecBan == Init /\ [][NextBan]_vars

\* SpecLoad: many requests in flight, rate limiting always on.
NextLoad ==
    \/ \E nick \in Nicks, m \in {TimeMsg, PyNone} :
          Privmsg(nick, Chan, m, TRUE, MaxLoad) /\ UNCHANGED <<run, execbox>>
    \/ Tick /\ UNCHANGED <<run, execbox>>
    \/ \E id \in 1..MaxLoad : HandleMessage(id) /\ UNCHANGED <<run, execbox>>

SpecLoad == Init /\ [][NextLoad]_vars

\* SpecAdm: the admin commands on bans and admins, with the warn machine.
NextAdm ==
    \/ \E m \in {TimeMsg, BanMsg, BanBothMsg, UnbanMsg, AdminAddMsg} :
          Privmsg("adm", Chan, m, TRUE, MaxAdm) /\ UNCHANGED <<run, execbox>>
    \/ Privmsg("u1", Chan, TimeMsg, TRUE, MaxAdm) /\ UNCHANGED <<run, execbox>>
    \/ Tick /\ UNCHANGED <<run, execbox>>
    \/ \E id \in 1..MaxAdm : HandleMessage(id) /\ UNCHANGED <<run, execbox>>

SpecAdm == Init /\ [][NextAdm]_vars

\* SpecErr: handlers that raise, under load.
NextErr ==
    \/ \E nick \in Nicks, m \in {TimeMsg, HelpMsg}, helpok \in BOOLEAN :
          Privmsg(nick, Chan, m, helpok, MaxErr) /\ UNCHANGED <<run, execbox>>
    \/ Tick /\ UNCHANGED <<run, execbox>>
    \/ \E id \in 1..MaxErr : HandleMessage(id) /\ UNCHANGED <<run, execbox>>

SpecErr == Init /\ [][NextErr]_vars

\* SpecLive: every kind of handler result, with the reactor's fairness.
NextLive ==
    \/ \E nick \in Nicks, m \in {PyMsg, HelpMsg}, helpok \in BOOLEAN :
          Privmsg(nick, Chan, m, helpok, MaxLive) /\ UNCHANGED <<run, execbox>>
    \/ \E long \in BOOLEAN : WorkerFinish(long) /\ UNCHANGED <<run, execbox>>
    \/ WorkerTimeout /\ UNCHANGED <<run, execbox>>
    \/ WorkerStartFails /\ UNCHANGED <<run, execbox>>
    \/ WorkerCrash /\ UNCHANGED <<run, execbox>>
    \/ Tick /\ UNCHANGED <<run, execbox>>
    \/ \E id \in 1..MaxLive : DeferredFires(id) /\ UNCHANGED <<run, execbox>>
    \/ \E id \in 1..MaxLive : HandleMessage(id) /\ UNCHANGED <<run, execbox>>

SpecLive ==
    /\ Init /\ [][NextLive]_vars
    /\ WF_vars(Tick /\ UNCHANGED <<run, execbox>>)
    /\ WF_vars(WorkerTimeout /\ UNCHANGED <<run, execbox>>)
    /\ \A id \in 1..MaxLive :
          /\ WF_vars(DeferredFires(id) /\ UNCHANGED <<run, execbox>>)
          /\ WF_vars(HandleMessage(id) /\ UNCHANGED <<run, execbox>>)

(* ------------------------------------------------------------------ *)
(* The warn / ban escalation.                                           *)
(* ------------------------------------------------------------------ *)
Count(n) == IF n \in DOMAIN admin.banned_warned
            THEN admin.banned_warned[n].count ELSE 0

IsBanned(n) == n \in Range(admin.banned)

\* The last step was privmsg taking a command of n.
Commanded(n) == ev.op = "privmsg" /\ ev.nick = n /\ ev.msg.cc

\* C1 as stated: the first three commands of an identity never seen before,
\* sent less than msg_timelimit seconds apart, take it to one warning, two
\* warnings and the ban, and the fourth is ignored as banned.
C1_FirstThreeCommandsBan ==
    \A n \in Tracked :
        /\ run[n].sent = 1 => Count(n) = 1 /\ ~IsBanned(n)
        /\ run[n].sent = 2 => Count(n) = 2 /\ ~IsBanned(n)
        /\ run[n].sent = 3 => IsBanned(n)
        /\ run[n].sent = 4 /\ Commanded(n) => ev.decision = "banned"

\* C1 (amended): the first command privmsg answers for an identity never
\* warned before leaves it clean; the next three commands of the run take it
\* to one warning, two warnings, and three warnings with the ban persisted;
\* every later command of the run is ignored as banned.
C1_RunOfFourBans ==
    \A n \in Tracked :
        /\ run[n].k = 1 => n \notin DOMAIN admin.banned_warned /\ ~IsBanned(n)
        /\ run[n].k = 2 => Count(n) = 1 /\ ~IsBanned(n)
        /\ run[n].k = 3 => Count(n) = 2 /\ ~IsBanned(n)
        /\ run[n].k >= 4 =>
              /\ Count(n) = banwarn_limit
              /\ IsBanned(n)
              /\ n \in Range(admin.banfile)
        /\ run[n].k = 4 /\ Commanded(n) => ev.reply = "no more."
        /\ run[n].k = 5 /\ Commanded(n) => ev.decision = "banned"

C1_Witness ==
    \E n \in Tracked :
        run[n].k = 5 /\ Commanded(n) /\ ev.decision = "banned"

\* The warning count of n in the next state.
CountAfter(n) == IF n \in DOMAIN admin'.banned_warned
                 THEN admin'.banned_warned[n].count ELSE 0

\* C2: whenever privmsg answers with what ban_add returned, the sender's
\* count went up by one, and: at banwarn_limit - 1 the reply is the final
\* warning and the ban list is unchanged; at banwarn_limit the sender is
\* appended to the ban list, the list is persisted and the reply is
\* "no more."; at any other count the reply is the generic warning and the
\* ban list is unchanged.
C2_BanAddThresholds ==
    [][ (ev'.op = "privmsg" /\ ev'.reply # "") =>
          LET n == ev'.nick
              newcount == CountAfter(n)
          IN  /\ newcount = Count(n) + 1
              /\ newcount = banwarn_limit - 1 =>
                    /\ ev'.reply = "really, slow down with your commands."
                    /\ admin'.banned = admin.banned
                    /\ admin'.banfile = admin.banfile
              /\ newcount = banwarn_limit =>
                    /\ ev'.reply = "no more."
                    /\ admin'.banned = Append(admin.banned, n)
                    /\ admin'.banfile = admin'.banned
              /\ newcount \notin {banwarn_limit - 1, banwarn_limit} =>
                    /\ ev'.reply = "slow down with your commands."
                    /\ admin'.banned = admin.banned
                    /\ admin'.banfile = admin.banfile ]_vars

\* ban_add has just banned a sender at its third warning.
C2_Witness ==
    \E n \in Tracked :
        /\ Commanded(n)
        /\ ev.reply = "no more."
        /\ Count(n) = banwarn_limit
        /\ n \in Range(admin.banned) /\ admin.banfile = admin.banned

(* ------------------------------------------------------------------ *)
(* Admission.                                                           *)
(* ------------------------------------------------------------------ *)
\* The requests a response is scheduled or awaited for.
Pending == {i \in DOMAIN reqs : reqs[i].st \in {"scheduled", "deferred"}}

\* C3: a message from a banned identity changes nothing: no attribute of
\* the AdminHandler (warning counts and timestamps, last_handle, last_nick,
\* last_command, handlingcount, handled, ban list) changes, no handler runs,
\* no line is sent and no response is scheduled.
C3_BannedChangesNothing ==
    [][ (ev'.op = "privmsg" /\ ev'.nick \in Range(admin.banned)) =>
          /\ ev'.decision = "banned"
          /\ ~ev'.ran /\ ev'.reply = ""
          /\ admin' = [admin EXCEPT !.lines = 0]
          /\ reqs' = reqs
          /\ blocked' = blocked ]_vars

\* A banned identity's command was ignored while a response was pending.
C3_Witness ==
    /\ ev.op = "privmsg" /\ ev.decision = "banned" /\ ev.msg.cc
    /\ ev.nick \in Range(admin.banned)
    /\ Pending # {}
    /\ admin.handlingcount > 0

\* The next step is privmsg taking a new message (not the return of a
\* handler that was waiting in timed_call).
PrivmsgStarts == blocked.phase = "idle" /\ ev'.op = "privmsg"

\* The message privmsg takes in the next step repeats the last handled
\* command and comes from an identity that is neither banned nor an admin.
RepeatsLastCommand ==
    /\ PrivmsgStarts
    /\ ev'.msg = admin.last_command
    /\ ev'.nick \notin admin.admins
    /\ ev'.nick \notin Range(admin.banned)

\* C4 as stated: a repeat of the last handled command from a non-banned
\* non-admin is suppressed before any warning is counted: no handler, no
\* response of any kind, no warning-count increment.
C4_RepeatAlwaysSuppressed ==
    [][ RepeatsLastCommand =>
          /\ ev'.decision = "dup"
          /\ ~ev'.ran /\ ev'.reply = ""
          /\ reqs' = reqs /\ admin'.lines = 0
          /\ CountAfter(ev'.nick) = Count(ev'.nick) ]_vars

\* C4 (amended): the auto-ban block runs before the duplicate check.  A
\* repeat of the last handled command from a non-banned non-admin never
\* runs a handler; unless it is counted as an offence it is suppressed
\* (no response, no count change), whoever sent the earlier command and
\* however long ago; when it is counted as an offence the count goes up by
\* one and the only response it can get is the warning.  A message of an
\* admin is never suppressed.
C4_RepeatSuppressedUnlessWarned ==
    [][ /\ RepeatsLastCommand =>
              /\ ~ev'.ran
              /\ blocked' = blocked
              /\ ev'.reply = "" =>
                    /\ ev'.decision = "dup"
                    /\ reqs' = reqs /\ admin'.lines = 0
                    /\ CountAfter(ev'.nick) = Count(ev'.nick)
              /\ ev'.reply # "" =>
                    /\ CountAfter(ev'.nick) = Count(ev'.nick) + 1
                    /\ \/ reqs' = reqs
                       \/ /\ Len(reqs') = Len(reqs) + 1
                          /\ reqs'[Len(reqs')].msg = ev'.reply
        /\ (PrivmsgStarts /\ ev'.nick \in admin.admins) =>
              /\ ev'.decision # "dup"
              /\ ev'.msg = admin.last_command => ev'.ran ]_vars

\* A repeat was suppressed although the earlier command came from another
\* identity and was handled at least respond_limit seconds before.
C4_Witness ==
    /\ ev.op = "privmsg" /\ ev.decision = "dup"
    /\ ev.msg = admin.last_command
    /\ admin.last_nick \in admin.admins /\ ev.nick \notin admin.admins
    /\ admin.last_handle >= respond_limit

(* ------------------------------------------------------------------ *)
(* The in-flight counter.                                               *)
(* ------------------------------------------------------------------ *)
\* C5: handlingcount is the number of requests privmsg scheduled a response
\* for and _handleMessage has not delivered yet, whatever the interleaving
\* of admissions, deliveries and limitrate toggles.
C5_CountIsPending == admin.handlingcount = Cardinality(Pending)

\* The next step is privmsg taking a message of a non-banned non-admin
\* while rate limiting is on and the counter is above the ceiling.
OverCeiling ==
    /\ PrivmsgStarts
    /\ admin.limit_rate
    /\ admin.handlingcount > banwarn_limit
    /\ ev'.nick \notin admin.admins
    /\ ev'.nick \notin Range(admin.banned)

\* C6: above the ceiling a non-admin's request is refused entirely: its
\* handler is not executed, no response is scheduled, and handlingcount,
\* last_handle, last_nick and last_command are left unchanged.
C6_RefusedEntirely ==
    [][ OverCeiling =>
          /\ ~ev'.ran
          /\ blocked' = blocked
          /\ reqs' = reqs
          /\ admin'.handlingcount = admin.handlingcount
          /\ admin'.last_handle = admin.last_handle
          /\ admin'.last_nick = admin.last_nick
          /\ admin'.last_command = admin.last_command ]_vars

\* C7: the counter a handler reads while it runs already includes the
\* handler's own request: for a request admitted with rate limiting on, the
\* value the handler could read is the value after handling_increase.
C7_HandlerSeesOwnRequest ==
    (ev.op = "privmsg" /\ ev.decision = "admitted" /\ ev.ran
        /\ admin.limit_rate)
    => ev.seen = admin.handlingcount

(* ------------------------------------------------------------------ *)
(* Response scheduling.                                                 *)
(* ------------------------------------------------------------------ *)
\* The last step called _sendMessage for request ev.id.
Scheduled ==
    /\ ev.op \in {"privmsg", "fired"}
    /\ ev.id \in DOMAIN reqs
    /\ reqs[ev.id].st = "scheduled"

\* C8: with k requests increased and not yet decreased (k includes the
\* request being scheduled), _sendMessage gives callLater the baseline
\* delay when k <= 1 or the response has no payload and exactly 2k seconds
\* otherwise; each delivery, with or without payload, takes one off the
\* counter; once every response is delivered the counter is 0.
C8_DelayFollowsLoad ==
    LET k == Cardinality(Pending)
    IN  /\ Scheduled =>
              /\ admin.handlingcount = k
              /\ ev.delay = IF k > 1 /\ reqs[ev.id].msg # ""
                            THEN 2 * k * Second
                            ELSE base_delay
        /\ ev.op = "handle" =>
              /\ ev.seen = k + 1
              /\ admin.handlingcount = ev.seen - 1
        /\ k = 0 => admin.handlingcount = 0

\* Three responses are pending, one of them without payload and scheduled
\* at the baseline, and the last one scheduled got 2 x 3 seconds.
C8_Witness ==
    /\ Scheduled
    /\ Cardinality(Pending) = 3
    /\ ev.delay = 2 * 3 * Second
    /\ \E i \in Pending : reqs[i].msg = ""

(* ------------------------------------------------------------------ *)
(* Progress and intake.                                                 *)
(* ------------------------------------------------------------------ *)
\* C9: every request privmsg scheduled a response for is eventually
\* delivered by _handleMessage (under the fairness of SpecLive: time
\* passes, due timers fire, join times out).
C9_AdmittedEventuallyHandled ==
    \A i \in 1..MaxLive :
        (Len(reqs) >= i) ~> (Len(reqs) >= i /\ reqs[i].st = "delivered")

\* C10: while a request is pending, waiting in timed_call for its worker
\* or waiting out its response delay, privmsg can take a further message.
C10_IntakeNeverStalled ==
    (blocked.phase # "idle" \/ Pending # {}) =>
        ENABLED (\E nick \in Nicks, channel \in Channels, m \in Messages :
                    Privmsg(nick, channel, m, TRUE, MaxReq))

(* ------------------------------------------------------------------ *)
(* The timed invocation of the worker.                                  *)
(* ------------------------------------------------------------------ *)
\* The text cmd_python answers with when the evaluation timed out.
TimeoutReply == safe_output(execute(timed_call("alive")), 0, 0)

\* The response privmsg scheduled in the last step, "" if it scheduled none.
AnswerAfter == IF ev'.id \in DOMAIN reqs' THEN reqs'[ev'.id].msg ELSE ""

\* C11: timed_call never waits longer than its timeout plus the grace
\* period, whatever the worker does.
C11_TimedCallBounded ==
    blocked.phase # "idle" => blocked.elapsed <= exec_timeout + Grace

\* C12: when the worker has exited without sending, timed_call / execute
\* comes back with an error that is not the timeout error, and privmsg
\* goes on with it.
C12_CrashReported ==
    (blocked.phase = "recv") ~>
        (/\ blocked.phase = "idle"
         /\ ev.op = "privmsg"
         /\ ev.id \in DOMAIN reqs => reqs[ev.id].msg # TimeoutReply)

\* C13: a worker is ended by timed_call only when join's timeout has
\* expired with the worker still alive; timed_call then raises TimedOut
\* (the request is answered with the timeout error) and whenever privmsg
\* has returned no worker is running.
C13_TimeoutEndsWorker ==
    [][ /\ blocked'.phase = "idle" => worker' # "alive"
        /\ blocked'.phase = "join" => worker' = "alive"
        /\ (worker = "alive" /\ worker' = "terminated") =>
              /\ blocked.phase = "join"
              /\ blocked.elapsed = exec_timeout
              /\ blocked'.phase = "idle"
              /\ ev'.op = "privmsg" /\ ev'.ran
              /\ ev'.decision = "admitted" => AnswerAfter = TimeoutReply
      ]_vars

\* The evaluation of a request timed out, its worker was ended and the
\* request was answered.
C13_Witness ==
    /\ worker = "terminated"
    /\ blocked.phase = "idle"
    /\ ev.op = "privmsg" /\ ev.decision = "admitted" /\ ev.ran
    /\ reqs[ev.id].msg = TimeoutReply

\* C14: the response to an evaluation that exceeded its timeout is exactly
\* 'result: timed out.'.
C14_TimeoutReplyText ==
    [][ (worker = "alive" /\ worker' = "terminated"
            /\ ev'.decision = "admitted")
        => AnswerAfter = "result: timed out." ]_vars

AdminCommands(cmd, n) ==
    /\ ev'.op = "privmsg" /\ ev'.ran
    /\ ev'.nick \in admin.admins
    /\ ev'.msg.cmd = cmd
    /\ n \in Range(split(ev'.msg.rest))

Times(n, s) == Cardinality({i \in DOMAIN s : s[i] = n})

\* C16: no step creates a warning entry for an identity that is an admin
\* when the step is taken, raises its warning count or adds it to the ban
\* list - not its own messages, not an admin's ban command naming it.
C16_AdminsExempt ==
    [][ \A n \in admin.admins :
          /\ n \in DOMAIN admin'.banned_warned
                => n \in DOMAIN admin.banned_warned
          /\ CountAfter(n) <= Count(n)
          /\ Times(n, admin'.banned) <= Times(n, admin.banned) ]_vars

\* An admin's ban command named a non-admin and an admin: only the
\* non-admin is banned.
C16_Witness ==
    /\ ev.op = "privmsg" /\ ev.ran /\ ev.msg = BanBothMsg
    /\ ev.nick = "adm"
    /\ reqs[ev.id].msg = "banned: u1, unable to ban: adm"
    /\ admin.banned = <<"u1">>

\* C17: every command of an identity that is an admin reaches its handler:
\* it is not ignored as banned, not answered with a warning, not
\* suppressed as a duplicate and not dropped for load.
C17_AdminPassedThrough ==
    [][ (PrivmsgStarts /\ ev'.msg.cc /\ ev'.nick \in admin.admins) =>
          /\ ev'.ran
          /\ ev'.reply = ""
          /\ ev'.decision \in {"admitted", "running"} ]_vars

\* C18 as stated: after an admin's unban naming n, n is not banned, its
\* warning count is 0 and its entry is kept, whether n was banned or only
\* warned before.
C18_UnbanAlwaysResets ==
    [][ \A n \in Nicks :
          AdminCommands("unban", n) =>
              /\ n \notin Range(admin'.banned)
              /\ CountAfter(n) = 0
              /\ n \in DOMAIN admin.banned_warned
                    => n \in DOMAIN admin'.banned_warned ]_vars

\* C18 (amended): after an admin's unban naming n, n is not banned and its
\* entry, if it has one, is kept; when n was banned its count is 0 and the
\* ban list is persisted; when n was not banned (clean or only warned)
\* its count and the ban list are unchanged.
C18_UnbanResetsBanned ==
    [][ \A n \in Nicks :
          AdminCommands("unban", n) =>
              /\ n \notin Range(admin'.banned)
              /\ DOMAIN admin'.banned_warned = DOMAIN admin.banned_warned
              /\ n \in Range(admin.banned) =>
                    /\ CountAfter(n) = 0
                    /\ admin'.banfile = admin'.banned
              /\ n \notin Range(admin.banned) =>
                    /\ CountAfter(n) = Count(n)
                    /\ admin'.banned = admin.banned ]_vars

\* A warned and then banned identity has just been unbanned: its entry is
\* there with count 0.
C18_Witness ==
    /\ ev.op = "privmsg" /\ ev.ran /\ ev.msg = UnbanMsg
    /\ reqs[ev.id].msg = "unbanned: u1"
    /\ "u1" \in DOMAIN admin.banned_warned /\ Count("u1") = 0
    /\ "u1" \notin Range(admin.banned)

\* C19: a warning entry is never deleted, by no operation and not by time;
\* its count only stays, goes up by one, or is reset to 0 by an admin's
\* unban of the banned identity.
C19_CountMonotone ==
    [][ \A n \in DOMAIN admin.banned_warned :
          /\ n \in DOMAIN admin'.banned_warned
          /\ \/ CountAfter(n) = Count(n)
             \/ CountAfter(n) = Count(n) + 1 /\ ev'.op = "privmsg"
             \/ /\ CountAfter(n) = 0
                /\ AdminCommands("unban", n)
                /\ n \in Range(admin.banned) ]_vars

\* Long after its last offence a warned identity still has its entry and
\* its count.
C19_Witness ==
    /\ ev.op = "tick"
    /\ "u1" \in DOMAIN admin.banned_warned
    /\ admin.banned_warned["u1"].last >= msg_timelimit
    /\ Count("u1") = banwarn_limit - 1

\* C20: an admin's ban command puts every non-admin it names in the ban
\* list, once, persisted, leaving the warning entries as they were; admins
\* it names are not added; and a message of a banned non-admin is ignored.
C20_AdminBanImmediate ==
    [][ /\ \A n \in Nicks :
              AdminCommands("ban", n) =>
                  /\ n \notin admin.admins =>
                        /\ Times(n, admin'.banned) = 1
                        /\ n \in Range(admin'.banfile)
                  /\ n \in admin.admins =>
                        Times(n, admin'.banned) = Times(n, admin.banned)
                  /\ admin'.banned_warned = admin.banned_warned
        /\ (PrivmsgStarts /\ ev'.nick \in Range(admin.banned)) =>
              /\ ev'.decision = "banned"
              /\ reqs' = reqs ]_vars

\* An identity with two warnings has just been banned by an admin.
C20_Witness ==
    /\ ev.op = "privmsg" /\ ev.ran /\ ev.msg = BanMsg
    /\ reqs[ev.id].msg = "banned: u1"
    /\ Count("u1") = banwarn_limit - 1
    /\ admin.banned = <<"u1">>

(* ------------------------------------------------------------------ *)
(* ExecBox.execute on texts.  The variable execbox holds one ExecBox   *)
(* (`self`: output and lasterror) and the call of execute in progress.  *)
(* ------------------------------------------------------------------ *)
blacklist ==
    [b \in {"__bases__", "__import__", "__subclasses__", "builtin",
            "eval(", "exec(", "exit", "help(", "import", "KABOOM",
            "kaboom", "open", "os.", "self", "super", "sys",
            "SystemExit"} |->
        CASE b = "__bases__"      -> "too complicated for this bot."
          [] b = "__import__"     -> "no __import__ allowed."
          [] b = "__subclasses__" -> "too complicated for this bot."
          [] b = "builtin"        -> "no builtins allowed."
          [] b = "eval("          -> "no eval() allowed."
          [] b = "exec("          -> "no exec() allowed."
          [] b = "exit"           -> "no exit allowed."
          [] b = "help("          -> "no help() allowed."
          [] b = "import"         -> "no imports allowed."
          [] b = "KABOOM"         -> "no way."
          [] b = "kaboom"         -> "no way."
          [] b = "open"           -> "no open() allowed."
          [] b = "os."            -> "no os module allowed."
          [] b = "self"           -> "no self allowed."
          [] b = "super"          -> "no super() allowed."
          [] b = "sys"            -> "no sys allowed."
          [] b = "SystemExit"     -> "no SystemExit allowed."]

\* self.inputtrim
inputtrim(inputstr) == replace(replace(inputstr, " ", ""), "\t", "")

\* check_blacklist: the message of the first bad string, in the order the
\* dict is iterated, that inputtrim contains.  The order of a dict is up
\* to the interpreter: every message of a bad string found is possible.
check_blacklist(trimmed) ==
    {blacklist[b] : b \in {x \in DOMAIN blacklist : contains(trimmed, x)}}

Rejected(self) == [rejected |-> TRUE, self |-> self]
Accepted(self) == [rejected |-> FALSE, self |-> self]

\* check_blacklist looking at the input as typed, not at inputtrim.
execute_checks_untrimmed(self, inputstr, use_blacklist) ==
    IF inputstr = "" THEN {Rejected(error_return("no input."))}
    ELSE IF strip(inputtrim(inputstr), Whitespace) = ""
         THEN {Rejected(error_return("only whitespace found."))}
    ELSE IF use_blacklist /\ check_blacklist(inputstr) # {}
         THEN {Rejected(error_return(msg)) :
                  msg \in check_blacklist(inputstr)}
    ELSE {Accepted(ExecBox(self.output, None))}

\* execute up to the call of timed_call: the rejection it returns, or the
\* ExecBox (lasterror reset) with which it goes on to start the worker.
execute_checks(self, inputstr, use_blacklist) ==
    IF inputstr = "" THEN {Rejected(error_return("no input."))}
    ELSE IF strip(inputtrim(inputstr), Whitespace) = ""
         THEN {Rejected(error_return("only whitespace found."))}
    ELSE IF use_blacklist /\ check_blacklist(inputtrim(inputstr)) # {}
         THEN {Rejected(error_return(msg)) :
                  msg \in check_blacklist(inputtrim(inputstr))}
    ELSE {Accepted(ExecBox(self.output, None))}

\* ExecBox.__init__: no output; lasterror is not set before execute.  The
\* other fields are the call of execute in progress (phase, elapsed, the
\* streams of the worker), what it returned (ret, ended), the output the
\* box held when it was called (prev), the number of calls so far (runs),
\* the last call of safe_output (maxlines, maxlength, safe) and the last
\* call of parse_input (stringmode, parsed).
NewBox ==
    [op |-> "init", self |-> ExecBox("", None),
     inputstr |-> "", use_blacklist |-> FALSE, timeout |-> exec_timeout,
     raw_output |-> TRUE, phase |-> "new", elapsed |-> 0,
     stdout |-> "", stderr |-> "", ret |-> None, ended |-> "none",
     prev |-> "", runs |-> 0,
     maxlines |-> 0, maxlength |-> 0, safe |-> None,
     stringmode |-> TRUE, parsed |-> None]

\* execbox.execute(evalstr=inputstr, use_blacklist=..., timeout=...,
\* raw_output=...) up to its return or to timed_call's join; max is the
\* number of calls the behaviour makes.
Execute(inputstr, use_blacklist, timeout, raw_output, max) ==
    /\ execbox.phase \in {"new", "returned"}
    /\ execbox.runs < max
    /\ \E r \in execute_checks(execbox.self, inputstr, use_blacklist) :
          LET call == [NewBox EXCEPT
                          !.op = "execute", !.self = r.self,
                          !.inputstr = inputstr,
                          !.use_blacklist = use_blacklist,
                          !.timeout = timeout, !.raw_output = raw_output,
                          !.prev = execbox.self.output,
                          !.runs = execbox.runs + 1]
          IN  IF r.rejected
              THEN /\ execbox' = [call EXCEPT !.phase = "returned",
                                              !.ret = r.self.output,
                                              !.ended = "rejected"]
                   /\ worker' = worker
              ELSE /\ execbox' = [call EXCEPT !.phase = "join"]
                   /\ worker' = "alive"
    /\ UNCHANGED <<admin, reqs, blocked, ev, run>>

\* timeout=None, among the seconds a timeout is given in.
NoTimeout == -1

\* The timeout execute hands to timed_call (None is taken as 0).
JoinTimeout == IF execbox.timeout = NoTimeout THEN 0 ELSE execbox.timeout

\* A second of execproc.join(timeout) passes.
ExecTick ==
    /\ execbox.phase \in {"join", "send"}
    /\ execbox.elapsed < JoinTimeout
    /\ execbox' = [execbox EXCEPT !.op = "tick", !.elapsed = @ + 1]
    /\ UNCHANGED <<admin, reqs, blocked, ev, run, worker>>

\* The lines readline gives for a stream, each with its newline removed.
readlines(stream) ==
    IF stream = "" THEN <<>>
    ELSE LET parts == str_split(stream, "\n")
         IN  IF endswith(stream, "\n")
             THEN SubSeq(parts, 1, Len(parts) - 1)
             ELSE parts

\* proc_output keeping the empty and the 'import site' lines of stderr.
proc_output_unfiltered(stdout, stderr) ==
    LET outlines == readlines(stdout)
        errlines == readlines(stderr)
        last == strip(errlines[Len(errlines)], {"\n"})
        output ==
            IF outlines # <<>> THEN join("\n", outlines)
            ELSE IF errlines # <<>>
                 THEN IF last = "RuntimeError"
                      THEN "operation not permitted in the sandbox."
                      ELSE IF last = "[Subprocess killed by SIGIOT]"
                      THEN "crash! the interpreter choked."
                      ELSE last
            ELSE "No output."
    IN  strip(output, {"\n"})

\* proc_output(proc) for a worker that wrote stdout and stderr.
proc_output(stdout, stderr) ==
    LET outlines == readlines(stdout)
        errlines == Without(readlines(stderr), {"", "'import site' failed"})
        last == strip(errlines[Len(errlines)], {"\n"})
        output ==
            IF outlines # <<>> THEN join("\n", outlines)
            ELSE IF errlines # <<>>
                 THEN IF last = "RuntimeError"
                      THEN "operation not permitted in the sandbox."
                      ELSE IF last = "[Subprocess killed by SIGIOT]"
                      THEN "crash! the interpreter choked."
                      ELSE last
            ELSE "No output."
    IN  strip(output, {"\n"})

\* The rest of execute once timed_call has ended with `tc`.
ExecuteReturns(tc, stdout, stderr, ended) ==
    LET self == execute(tc)
    IN  /\ execbox' = [execbox EXCEPT
                          !.op = "returns", !.self = self,
                          !.phase = "returned", !.ended = ended,
                          !.stdout = stdout, !.stderr = stderr,
                          !.ret = IF tc.kind = "return" /\ ~execbox.raw_output
                                  THEN safe_output(self, 0, 0)
                                  ELSE self.output]
        /\ worker' = tc.worker
        /\ UNCHANGED <<admin, reqs, blocked, ev, run>>

\* pipesend.send(output) returns without a reader only when the pipe's
\* buffer holds the whole of output.
pipe_holds(output) == Len(output) <= PipeBuf

\* The worker wrote stdout and stderr, and proc_output's text is more than
\* the pipe holds: the worker waits in pipesend.send for the parent to
\* read, and the parent waits in join for the worker to exit.
ExecWorkerBlocks(stdout, stderr) ==
    /\ execbox.phase = "join"
    /\ execbox.elapsed < JoinTimeout
    /\ ~pipe_holds(proc_output(stdout, stderr))
    /\ execbox' = [execbox EXCEPT !.op = "send", !.phase = "send",
                                  !.stdout = stdout, !.stderr = stderr]
    /\ UNCHANGED <<admin, reqs, blocked, ev, run, worker>>

\* The worker wrote stdout and stderr, sent proc_output's text through the
\* pipe and exited before join's timeout.
ExecWorkerSends(stdout, stderr) ==
    /\ execbox.phase = "join"
    /\ execbox.elapsed < JoinTimeout
    /\ pipe_holds(proc_output(stdout, stderr))
    /\ ExecuteReturns([timed_call("sent") EXCEPT
                          !.val = proc_output(stdout, stderr)],
                      stdout, stderr, "ok")

\* join(timeout) returns with the worker alive.
ExecWorkerTimeout ==
    /\ execbox.phase \in {"join", "send"}
    /\ execbox.elapsed = JoinTimeout
    /\ ExecuteReturns(timed_call("alive"), execbox.stdout, execbox.stderr,
                      "timeout")

\* execproc.start() raises.
ExecStartFails ==
    /\ execbox.phase = "join"
    /\ execbox.elapsed = 0
    /\ ExecuteReturns(timed_call("failed"), "", "", "pyval error")

\* The worker exits without sending: timed_call waits in piperecv.recv().
ExecWorkerCrash ==
    /\ execbox.phase = "join"
    /\ execbox.elapsed < JoinTimeout
    /\ execbox' = [execbox EXCEPT !.op = "crash", !.phase = "recv"]
    /\ worker' = "exited"
    /\ UNCHANGED <<admin, reqs, blocked, ev, run>>

\* execbox.safe_output(maxlines=..., maxlength=...) after execute returned.
SafeOutput(maxlines, maxlength) ==
    /\ execbox.phase = "returned"
    /\ execbox' = [execbox EXCEPT
                      !.op = "safe_output",
                      !.maxlines = maxlines, !.maxlength = maxlength,
                      !.safe = safe_output(execbox.self, maxlines,
                                           maxlength)]
    /\ UNCHANGED <<admin, reqs, blocked, ev, run, worker>>

\* Code, as typed in chat, that execute is given.
CodePieces == {" ", "\t", "\n", "o", "s.", "sys", "__import__"}

Fresh ==
    /\ Reactor
    /\ execbox = NewBox

\* SpecIn: the checks execute makes on its input before starting a worker.
NextIn ==
    \/ \E inputstr \in Texts(CodePieces, MaxPieces),
          use_blacklist \in BOOLEAN :
          Execute(inputstr, use_blacklist, exec_timeout, TRUE, 1)
    \/ ExecTick

SpecIn == Fresh /\ [][NextIn]_vars

\* What a worker writes to its standard output and standard error.
OutPieces == {"a", "\n"}
ErrPieces == {"e\n", "\n", "'import site' failed\n", "RuntimeError\n",
              "[Subprocess killed by SIGIOT]"}

\* The timeouts execute is called with.
Timeouts == {NoTimeout, 0, exec_timeout}

\* SpecExec: one evaluation, from execute's call to its return.
NextExec ==
    \/ \E timeout \in Timeouts, raw_output \in BOOLEAN :
          Execute("a", FALSE, timeout, raw_output, 1)
    \/ ExecTick
    \/ \E stdout \in Texts(OutPieces, MaxOut),
          stderr \in Texts(ErrPieces, MaxErrLines) :
          ExecWorkerSends(stdout, stderr)
    \/ \E stdout \in Texts(OutPieces, MaxOut),
          stderr \in Texts(ErrPieces, MaxErrLines) :
          ExecWorkerBlocks(stdout, stderr)
    \/ ExecWorkerTimeout
    \/ ExecStartFails
    \/ ExecWorkerCrash

SpecExec == Fresh /\ [][NextExec]_vars

\* The limits safe_output is called with: small ones, and those cmd_python
\* uses for a pasted result.
LineLimits == 0..MaxLines
LengthLimits == (0..MaxLength) \cup {paste_maxlength}

\* SpecOut: evaluations of one ExecBox, each followed by safe_output.
NextOut ==
    \/ \E inputstr \in {"", " ", "a"} :
          Execute(inputstr, FALSE, 1, TRUE, MaxRuns)
    \/ ExecTick
    \/ \E stdout \in Texts(OutPieces, MaxOut) : ExecWorkerSends(stdout, "")
    \/ ExecWorkerTimeout
    \/ ExecStartFails
    \/ \E maxlines \in LineLimits, maxlength \in LengthLimits :
          SafeOutput(maxlines, maxlength)

SpecOut == Fresh /\ [][NextOut]_vars

(* ------------------------------------------------------------------ *)
(* The sandbox runner: input checks, timeouts, output.                  *)
(* ------------------------------------------------------------------ *)
\* The step is a call of execute.
Executes == execbox'.op = "execute"

\* C21: execute given input that is empty or only whitespace, or, with the
\* blacklist enabled, input whose text without blanks and tabs contains a
\* forbidden string, returns a rejection and starts no worker; for a
\* blacklisted input the message is the one of a forbidden string that the
\* stripped input contains.
C21_RejectedBeforeWorker ==
    [][ Executes =>
          LET x == execbox'.inputstr
              stripped == inputtrim(x)
              found == {b \in DOMAIN blacklist : contains(stripped, b)}
              blank == \A i \in 1..Len(x) : SubSeq(x, i, i) \in Whitespace
          IN  /\ blank =>
                    /\ execbox'.ended = "rejected" /\ worker' = "none"
                    /\ execbox'.ret \in {"no input.", "only whitespace found."}
                    /\ execbox'.self.lasterror = execbox'.ret
              /\ (~blank /\ execbox'.use_blacklist /\ found # {}) =>
                    /\ execbox'.ended = "rejected" /\ worker' = "none"
                    /\ \E b \in found : execbox'.ret = blacklist[b]
                    /\ execbox'.self.lasterror = execbox'.ret ]_vars

\* 'o s.' typed with a blank in it has been rejected as 'os.', and no
\* worker was started.
C21_Witness ==
    /\ execbox.op = "execute" /\ execbox.inputstr = "o s."
    /\ execbox.use_blacklist
    /\ execbox.ret = "no os module allowed."
    /\ execbox.ended = "rejected" /\ worker = "none"

\* C22: execute called with timeout 0, or None which it takes as 0, returns
\* a rejection without starting a worker, and never ends with a result.
C22_ZeroTimeoutRejected ==
    [][ execbox'.timeout \in {NoTimeout, 0} =>
          /\ Executes =>
                /\ execbox'.ended = "rejected"
                /\ execbox'.phase = "returned"
                /\ worker' = "none"
          /\ execbox'.ended # "ok" ]_vars

(* ------------------------------------------------------------------ *)
(* The output reducer.                                                  *)
(* ------------------------------------------------------------------ *)
\* The step is a call of safe_output.
Reduces == execbox'.op = "safe_output"

\* The ExecBox holds an error text.
InError(self) == self.lasterror \notin {None, ""}

\* The text safe_output renders, and its lines.
Rendered(self) == IF InError(self) THEN self.lasterror ELSE self.output
Lines(self) == str_split(Rendered(self), "\n")

\* safe_output's result without the error prefix.
Body(self, safe) == IF InError(self) THEN From(safe, Len("error: ")) ELSE safe

LineMarker(n) == "(...truncated at " \o str(n) \o " lines.)"

\* A line cut to `maxlength` characters, with the inline marker.
Cut(line, maxlength) ==
    IF maxlength > 0 /\ Len(line) > maxlength
    THEN Upto(line, maxlength) \o " (..truncated)"
    ELSE line

\* C23 as stated: with maxlines = N > 0 and a text of more than N lines the
\* result is the first N original lines followed by the marker
\* '(...truncated at N lines.)'; a text of at most N lines gets no such
\* marker.
C23_FirstLinesThenMarker ==
    [][ (Reduces /\ Rendered(execbox'.self) # "") =>
          LET self == execbox'.self
              n == execbox'.maxlines
          IN  /\ (n > 0 /\ Len(Lines(self)) > n) =>
                    Body(self, execbox'.safe) =
                        join("\\n", Append(SubSeq(Lines(self), 1, n),
                                           LineMarker(n)))
              /\ ~(n > 0 /\ Len(Lines(self)) > n) =>
                    ~contains(execbox'.safe, "truncated at") ]_vars

\* C23 (amended): with maxlines = N > 0 and a text of more than N lines the
\* result has N + 1 rendered lines, the first N original lines and the
\* marker '(...truncated at N lines.)'; with maxlength = 0 they are
\* rendered whole, with maxlength > 0 each of the N + 1 lines, the marker
\* too, that is longer than maxlength is cut to maxlength characters and
\* followed by ' (..truncated)'.  A text of at most N lines gets no
\* line-count marker.
C23_CutLinesThenMarker ==
    [][ (Reduces /\ Rendered(execbox'.self) # "") =>
          LET self == execbox'.self
              n == execbox'.maxlines
              shown == str_split(Body(self, execbox'.safe), "\\n")
          IN  /\ (n > 0 /\ Len(Lines(self)) > n) =>
                    /\ Len(shown) = n + 1
                    /\ \A i \in 1..n :
                          shown[i] = Cut(Lines(self)[i], execbox'.maxlength)
                    /\ shown[n + 1] = Cut(LineMarker(n), execbox'.maxlength)
              /\ ~(n > 0 /\ Len(Lines(self)) > n) =>
                    ~contains(execbox'.safe, "truncated at") ]_vars

\* Two lines of output reduced to one line and the marker, both cut.
C23_Witness ==
    /\ execbox.op = "safe_output"
    /\ execbox.self.output = "aa\na"
    /\ execbox.maxlines = 1 /\ execbox.maxlength = 1
    /\ execbox.safe = "a (..truncated)\\n( (..truncated)"

\* C24: with maxlength > 0 every line of the text that safe_output keeps is
\* rendered, whole when it is not longer than maxlength, cut to maxlength
\* characters and followed by a truncation marker when it is, whether or
\* not the line count was truncated.
C24_EveryLongLineCut ==
    [][ (Reduces /\ Rendered(execbox'.self) # ""
                 /\ execbox'.maxlength > 0) =>
          LET self == execbox'.self
              n == execbox'.maxlines
              kept == IF n > 0 /\ Len(Lines(self)) > n
                      THEN n ELSE Len(Lines(self))
              shown == str_split(Body(self, execbox'.safe), "\\n")
          IN  /\ Len(shown) >= kept
              /\ \A i \in 1..kept :
                    LET line == Lines(self)[i]
                    IN  IF Len(line) > execbox'.maxlength
                        THEN shown[i] \in
                               {Upto(line, execbox'.maxlength) \o mark :
                                  mark \in {" (..truncated)",
                                            " (...truncated)"}}
                        ELSE shown[i] = line ]_vars

\* C25: with maxlength > 0 and no line-count truncation, a text whose
\* one-line form is longer than maxlength is cut to maxlength characters
\* and given the marker, so that what precedes the marker is never longer
\* than maxlength.
C25_FlatFormBounded ==
    [][ (Reduces /\ Rendered(execbox'.self) # ""
                 /\ execbox'.maxlength > 0
                 /\ ~(execbox'.maxlines > 0
                        /\ Len(Lines(execbox'.self)) > execbox'.maxlines)) =>
          LET self == execbox'.self
              flat == join("\\n", Lines(self))
              body == Body(self, execbox'.safe)
          IN  IF Len(flat) > execbox'.maxlength
              THEN body = Upto(flat, execbox'.maxlength) \o " (...truncated)"
              ELSE body = flat ]_vars

\* The last call of execute ended in an error.
EndedInError(call) == call.ended \in {"rejected", "timeout", "pyval error"}

\* C26: safe_output gives 'No output.' when the box holds neither output
\* nor error text; its result starts with 'error: ' exactly when the last
\* call of execute ended in an error, and what follows is then the error
\* text that call returned, rendered and measured against the limits as an
\* output of that text would be.
C26_ErrorPrefix ==
    [][ Reduces =>
          LET call == execbox'
          IN  /\ startswith(call.safe, "error: ") <=> EndedInError(call)
              /\ EndedInError(call) =>
                    /\ call.self.lasterror = call.ret
                    /\ call.safe = "error: " \o
                          safe_output(ExecBox(call.ret, None),
                                      call.maxlines, call.maxlength)
              /\ ~EndedInError(call) =>
                    /\ call.self.lasterror = None
                    /\ call.self.output = call.ret
                    /\ call.ret = "" => call.safe = "No output."
                    /\ call.ret # "" =>
                          call.safe = safe_output(ExecBox(call.ret, None),
                                                  call.maxlines,
                                                  call.maxlength) ]_vars

\* A box that held two lines of output was given blank input: what
\* safe_output cuts to three characters is the rejection.
C26_Witness ==
    /\ execbox.op = "safe_output" /\ execbox.runs = 2
    /\ execbox.prev = "a\na"
    /\ execbox.ended = "rejected"
    /\ execbox.maxlines = 0 /\ execbox.maxlength = 3
    /\ execbox.safe = "error: onl (...truncated)"

(* ------------------------------------------------------------------ *)
(* parse_input and safe_output on texts.                                *)
(* ------------------------------------------------------------------ *)
\* parse_input ending every text with a newline.
parse_input_alwaysnewline(s, stringmode) ==
    LET escaped == IF stringmode
                   THEN replace(replace(replace(s, "\\\\n", "{//n}"),
                                        "\\n", "\n"),
                                "{//n}", "\\n")
                   ELSE s
        printed == replace(escaped, "?(", "print(")
    IN  IF ~endswith(printed, "\n") THEN printed \o "\n" ELSE printed

\* ExecBox.parse_input(s, stringmode)
parse_input(s, stringmode) ==
    LET escaped == IF stringmode
                   THEN replace(replace(replace(s, "\\\\n", "{//n}"),
                                        "\\n", "\n"),
                                "{//n}", "\\n")
                   ELSE s
        printed == replace(escaped, "?(", "print(")
    IN  IF contains(printed, "\n") /\ ~endswith(printed, "\n")
        THEN printed \o "\n"
        ELSE printed

\* self.parsed = self.parse_input(self.inputstr, stringmode=stringmode)
ParseInput(stringmode) ==
    /\ execbox.op = "init"
    /\ execbox' = [execbox EXCEPT
                      !.op = "parse_input", !.stringmode = stringmode,
                      !.parsed = parse_input(execbox.inputstr, stringmode)]
    /\ UNCHANGED <<admin, reqs, blocked, ev, run, worker>>

\* What safe_output returned is read back under the stringmode convention.
ParseSafe ==
    /\ execbox.op = "safe_output"
    /\ execbox' = [execbox EXCEPT
                      !.op = "parse_safe", !.stringmode = TRUE,
                      !.parsed = parse_input(execbox.safe, TRUE)]
    /\ UNCHANGED <<admin, reqs, blocked, ev, run, worker>>

\* What the texts are made of: a backslash, the letter n, a newline, the
\* print shortcut, parse_input's placeholder, any other character.
TextPieces == {"\\", "n", "\n", "?(", "{//n}", "a"}

\* An ExecBox made for a text typed in chat, or holding a text as the
\* output of its evaluation.
Texted ==
    /\ Reactor
    /\ \E text \in Texts(TextPieces, MaxPieces) :
          \/ execbox = [NewBox EXCEPT !.inputstr = text]
          \/ execbox = [NewBox EXCEPT !.inputstr = "a",
                                      !.self = ExecBox(text, None),
                                      !.phase = "returned"]

\* SpecText: parse_input of a text; safe_output of a text and parse_input
\* of what it gave.
NextText ==
    \/ \E stringmode \in BOOLEAN : ParseInput(stringmode)
    \/ SafeOutput(0, 0)
    \/ ParseSafe

SpecText == Texted /\ [][NextText]_vars

\* safe_output's one-line form has been read back by parse_input.
ReadBack == execbox.op = "parse_safe"

\* The texts that come back as they were: not empty, where no backslash
\* is followed by the letter n or by a newline, without the print shortcut
\* and without parse_input's placeholder, and of one line or ending with a
\* newline.
ComesBack(text) ==
    /\ text # ""
    /\ ~contains(text, "\\n") /\ ~contains(text, "\\\n")
    /\ ~contains(text, "?(") /\ ~contains(text, "{//n}")
    /\ contains(text, "\n") => endswith(text, "\n")

\* C27 as claimed: for any text, parse_input (stringmode) of the one-line
\* form safe_output gives with maxlines = 0 and maxlength = 0 is the text.
C27_RoundTrip ==
    ReadBack => execbox.parsed = execbox.self.output

\* C27: parse_input (stringmode) of the one-line form safe_output gives
\* with maxlines = 0 and maxlength = 0 is the original text exactly for the
\* texts that are not empty, have no backslash followed by the letter n or
\* by a newline, no '?(' and no '{//n}', and have one line or end with a
\* newline.
C27_RoundTripOfPlainText ==
    ReadBack => (execbox.parsed = execbox.self.output
                    <=> ComesBack(execbox.self.output))

\* A text of two line breaks that ends with one has come back as it was.
C27_Witness ==
    /\ ReadBack
    /\ execbox.self.output = "\na\n"
    /\ execbox.safe = "\\na\\n"
    /\ execbox.parsed = "\na\n"

\* parse_input has been applied to a text typed in chat.
Parses == execbox.op = "parse_input"

\* The text read from left to right under the stringmode convention: two
\* backslashes and the letter n give a backslash and the letter n, a
\* backslash and the letter n give a newline, '?(' gives 'print(' and
\* every other character gives itself.
RECURSIVE Unescaped(_, _)
Unescaped(s, stringmode) ==
    IF s = "" THEN ""
    ELSE IF stringmode /\ startswith(s, "\\\\n")
         THEN "\\n" \o Unescaped(From(s, 3), stringmode)
    ELSE IF stringmode /\ startswith(s, "\\n")
         THEN "\n" \o Unescaped(From(s, 2), stringmode)
    ELSE IF startswith(s, "?(")
         THEN "print(" \o Unescaped(From(s, 2), stringmode)
    ELSE SubSeq(s, 1, 1) \o Unescaped(From(s, 1), stringmode)

\* C28: parse_input with stringmode turns every backslash-n into a newline
\* and every backslash-backslash-n into a literal backslash-n, leaves all
\* other text unchanged apart from '?(' rewritten to 'print(', and appends
\* one newline exactly when the result contains a newline and does not end
\* with one; without stringmode no escape is converted.
C28_OnlyEscapesConverted ==
    Parses =>
        LET result == Unescaped(execbox.inputstr, execbox.stringmode)
        IN  execbox.parsed =
               IF contains(result, "\n") /\ ~endswith(result, "\n")
               THEN result \o "\n"
               ELSE result

(* ------------------------------------------------------------------ *)
(* What execute returns for a worker's standard output and error.       *)
(* ------------------------------------------------------------------ *)
\* execute has returned what a worker sent.
Sent == execbox.op = "returns" /\ execbox.ended = "ok"

\* The phrase given for a diagnostic on standard error.
Friendly(line) ==
    IF line = "RuntimeError" THEN "operation not permitted in the sandbox."
    ELSE IF line = "[Subprocess killed by SIGIOT]"
         THEN "crash! the interpreter choked."
    ELSE line

\* C29 as claimed: proc_output gives the standard-output lines joined by
\* newlines when there is at least one, otherwise the last non-empty
\* standard-error line with 'RuntimeError' and '[Subprocess killed by
\* SIGIOT]' replaced by their phrases, and 'No output.' when both streams
\* are empty; in raw mode execute returns this text unreduced.
C29_StdoutElseLastStderr ==
    Sent =>
        LET outlines == readlines(execbox.stdout)
            errlines == Without(readlines(execbox.stderr), {""})
            text == execbox.self.output
        IN  /\ outlines # <<>> => text = join("\n", outlines)
            /\ (outlines = <<>> /\ errlines # <<>>) =>
                  text = Friendly(errlines[Len(errlines)])
            /\ (execbox.stdout = "" /\ execbox.stderr = "") =>
                  text = "No output."
            /\ execbox.raw_output => execbox.ret = text

\* C29: proc_output gives the standard-output lines joined by newlines,
\* without the line breaks at the start and at the end of the joined text,
\* when there is at least one standard-output line; otherwise the last
\* standard-error line that is neither empty nor "'import site' failed",
\* with 'RuntimeError' and '[Subprocess killed by SIGIOT]' replaced by
\* their phrases; and 'No output.' when there is no such line either.  In
\* raw mode execute returns this text unreduced.
C29_StdoutElseLastErrorLine ==
    Sent =>
        LET outlines == readlines(execbox.stdout)
            errlines == Without(readlines(execbox.stderr),
                                {"", "'import site' failed"})
            text == execbox.self.output
        IN  /\ outlines # <<>> => text = strip(join("\n", outlines), {"\n"})
            /\ (outlines = <<>> /\ errlines # <<>>) =>
                  text = Friendly(errlines[Len(errlines)])
            /\ (outlines = <<>> /\ errlines = <<>>) => text = "No output."
            /\ execbox.self.lasterror = None
            /\ execbox.raw_output => execbox.ret = text

\* A worker that wrote nothing to standard output and, on standard error,
\* 'RuntimeError' followed by the 'import site' notice: raw mode returned
\* the phrase for RuntimeError.
C29_Witness ==
    /\ Sent /\ execbox.raw_output
    /\ execbox.stdout = ""
    /\ execbox.stderr = "RuntimeError\n'import site' failed\n"
    /\ execbox.ret = "operation not permitted in the sandbox."

(* ------------------------------------------------------------------ *)
(* The admin commands setattr and getattr.                              *)
(* ------------------------------------------------------------------ *)
\* Attribute paths an admin names: two boolean attributes of the
\* AdminHandler and paths on which no attribute is found.
AttrPaths == {"admin.blacklist", "admin.limit_rate", "admin.nothing",
              "blacklist"}

\* The value strings typed after the path.
AttrValues == {"FALSE", "0", "True", "off", " false"}

AttrMsgs ==
    {Msg(TRUE, "setattr", path \o " " \o val) :
        path \in AttrPaths, val \in AttrValues}
    \cup {Msg(TRUE, "setattr", path \o " ") : path \in AttrPaths}
    \cup {Msg(TRUE, "getattr", path) : path \in AttrPaths}

\* SpecAttr: an admin sets and reads attributes by their path.
NextAttr ==
    \/ \E m \in AttrMsgs :
          Privmsg("adm", Chan, m, TRUE, MaxAttr) /\ UNCHANGED <<run, execbox>>
    \/ Tick /\ UNCHANGED <<run, execbox>>
    \/ \E id \in 1..MaxAttr : HandleMessage(id) /\ UNCHANGED <<run, execbox>>

SpecAttr == Init /\ [][NextAttr]_vars

\* privmsg has called the handler of the admin command `cmd`.
AdminRuns(cmd) ==
    /\ ev'.op = "privmsg" /\ ev'.ran /\ ev'.msg.cmd = cmd
    /\ ev'.nick \in admin.admins

\* The boolean the attribute of the path holds; the paths of the boolean
\* attributes.
Attr(a, path) == IF path = "admin.blacklist" THEN a.blacklist
                 ELSE a.limit_rate
BoolPaths == {"admin.blacklist", "admin.limit_rate"}

\* The path and the value string of a setattr message.
SetPath(m) == CHOOSE path \in AttrPaths : startswith(m.rest, path \o " ")
SetValue(m) == From(m.rest, Len(SetPath(m)) + 1)

\* The response privmsg has scheduled.
Response == reqs'[ev'.id].msg

\* C30: after an admin's setattr on the path of a boolean attribute with a
\* value string, the attribute holds False for 'false' or '0' in any case
\* and True for any other non-empty string; a getattr of the path reports
\* '<path> = <value>' for the value the attribute holds, which only such a
\* setattr changes; setattr and getattr on a path without an attribute
\* change nothing and report 'no attribute named: <path>'.
C30_SetThenGet ==
    [][ /\ AdminRuns("setattr") =>
             LET path == SetPath(ev'.msg)
                 val == SetValue(ev'.msg)
                 words == {"false", "False", "FALSE", "0"}
             IN  /\ (path \in BoolPaths /\ val # "") =>
                       /\ Attr(admin', path) = (val \notin words)
                       /\ \A other \in BoolPaths \ {path} :
                             Attr(admin', other) = Attr(admin, other)
                       /\ Response = path \o " = " \o
                             (IF val \in words THEN "False" ELSE "True")
                 /\ path \notin BoolPaths =>
                       /\ \A other \in BoolPaths :
                             Attr(admin', other) = Attr(admin, other)
                       /\ val # "" =>
                             Response = "no attribute named: " \o path
        /\ AdminRuns("getattr") =>
             LET path == ev'.msg.rest
             IN  /\ \A other \in BoolPaths :
                       Attr(admin', other) = Attr(admin, other)
                 /\ path \in BoolPaths =>
                       Response = path \o " = " \o
                          (IF Attr(admin, path) THEN "True" ELSE "False")
                 /\ path \notin BoolPaths =>
                       Response = "no attribute named: " \o path
        /\ ~AdminRuns("setattr") =>
             \A other \in BoolPaths : Attr(admin', other) = Attr(admin, other)
      ]_vars

\* An admin has set admin.blacklist, False at the start, with a value
\* that reads as True, and the getattr that followed reported it as True.
C30_Witness ==
    /\ ev.op = "privmsg" /\ ev.ran
    /\ ev.msg = Msg(TRUE, "getattr", "admin.blacklist")
    /\ admin.blacklist
    /\ Len(reqs) = 2
    /\ reqs[1].msg = "admin.blacklist = True"
    /\ reqs[2].msg = "admin.blacklist = True"

(* ------------------------------------------------------------------ *)
(* The first warning, last_nick and last_handle.                        *)
(* ------------------------------------------------------------------ *)
\* The sender of the command or warning privmsg last scheduled a response
\* for, while that response is not delivered yet (None otherwise).
LastScheduledFor ==
    IF reqs # <<>> /\ reqs[Len(reqs)].st = "scheduled"
    THEN reqs[Len(reqs)].nick
    ELSE None

\* C31: a non-admin, non-banned identity without a warning entry that
\* sends a command less than respond_limit seconds after its own previous
\* handled command, no command of another identity handled in between,
\* has its warning count set to 1 by that command, whatever non-command
\* messages were sent in between.
C31_SecondCommandWarned ==
    [][ ( /\ PrivmsgStarts /\ ev'.msg.cc
          /\ ev'.nick \notin admin.admins
          /\ ev'.nick \notin Range(admin.banned)
          /\ ev'.nick \notin DOMAIN admin.banned_warned
          /\ LastScheduledFor = ev'.nick
          /\ admin.last_handle # NoAge
          /\ admin.last_handle < respond_limit )
        => /\ ev'.nick \in DOMAIN admin'.banned_warned
           /\ admin'.banned_warned[ev'.nick].count = 1 ]_vars

\* privmsg has scheduled a response (to a command or a warning).
Schedules == ev'.decision = "admitted"

\* C32: last_nick is the sender whose command or warning privmsg last
\* scheduled a response for, and last_handle the time of it; nothing else
\* changes them: not sendmsg, a non-command message, an unknown command, a
\* suppressed duplicate or a request dropped for load.
C32_LastNickIsLastScheduled ==
    [][ /\ Schedules =>
              /\ admin'.last_nick = ev'.nick
              /\ admin'.last_handle = 0
        /\ ~Schedules =>
              /\ admin'.last_nick = admin.last_nick
              /\ admin'.last_handle \in
                    {admin.last_handle, Older(admin.last_handle)} ]_vars

(* ------------------------------------------------------------------ *)
(* Warned identities.                                                   *)
(* ------------------------------------------------------------------ *)
\* privmsg is given a message of a non-admin identity that has a warning
\* entry.
WarnedSends ==
    /\ PrivmsgStarts
    /\ ev'.nick \notin admin.admins
    /\ ev'.nick \in DOMAIN admin.banned_warned

\* C33 as claimed: for a non-admin identity with a warning entry, a command
\* less than msg_timelimit seconds after the entry's timestamp increments
\* the count, whoever responded last and whether the command is known or
\* not; a later command leaves the count and refreshes the timestamp; a
\* non-command message does not touch the entry.
C33_WarnedCommandCounts ==
    [][ WarnedSends =>
          LET n == ev'.nick
              entry == admin.banned_warned[n]
              after == admin'.banned_warned[n]
          IN  /\ (ev'.msg.cc /\ entry.last < msg_timelimit) =>
                    after = [last |-> 0, count |-> entry.count + 1]
              /\ (ev'.msg.cc /\ entry.last >= msg_timelimit) =>
                    after = [last |-> 0, count |-> entry.count]
              /\ ~ev'.msg.cc => after = entry ]_vars

\* C33: the same for an identity that is not banned; a message of a banned
\* identity, command or not, leaves its entry as it is.
C33_UnbannedWarnedCommandCounts ==
    [][ WarnedSends =>
          LET n == ev'.nick
              entry == admin.banned_warned[n]
              after == admin'.banned_warned[n]
              banned == n \in Range(admin.banned)
          IN  /\ (~banned /\ ev'.msg.cc /\ entry.last < msg_timelimit) =>
                    after = [last |-> 0, count |-> entry.count + 1]
              /\ (~banned /\ ev'.msg.cc /\ entry.last >= msg_timelimit) =>
                    after = [last |-> 0, count |-> entry.count]
              /\ (banned \/ ~ev'.msg.cc) => after = entry ]_vars

\* A warned identity has sent a command it has no handler for, right after
\* the admin was answered: it got its final warning.
C33_Witness ==
    /\ ev.op = "privmsg" /\ ev.nick = "u1" /\ ev.msg = UnbanMsg
    /\ Len(reqs) = 4
    /\ reqs[3].nick = "adm" /\ reqs[3].st = "scheduled"
    /\ reqs[4].msg = "really, slow down with your commands."
    /\ Count("u1") = banwarn_limit - 1

\* The message ban_add gives for a warning count.
WarningFor(count) ==
    IF count = banwarn_limit THEN "no more."
    ELSE IF count = banwarn_limit - 1
         THEN "really, slow down with your commands."
    ELSE "slow down with your commands."

\* C34: every time privmsg increments an identity's warning count, the
\* message for the new count is scheduled as the response to that
\* identity in place of the command's response, under load as well.
C34_WarningScheduled ==
    [][ (PrivmsgStarts /\ CountAfter(ev'.nick) > Count(ev'.nick)) =>
          /\ Schedules
          /\ Len(reqs') = Len(reqs) + 1
          /\ reqs'[Len(reqs')].st = "scheduled"
          /\ reqs'[Len(reqs')].nick = ev'.nick
          /\ reqs'[Len(reqs')].msg = WarningFor(CountAfter(ev'.nick)) ]_vars

(* ------------------------------------------------------------------ *)
(* The pipe between timed_call and its worker.                          *)
(* ------------------------------------------------------------------ *)
\* c * n
RECURSIVE Repeat(_, _)
Repeat(c, n) == IF n = 0 THEN "" ELSE c \o Repeat(c, n - 1)

\* What a worker prints: a line of a few characters, or of about as many
\* as the pipe holds.
PipeTexts ==
    {Repeat("a", n) \o "\n" :
        n \in (1..4) \cup ((PipeBuf - 1)..(PipeBuf + 2))}

\* SpecPipe: one evaluation whose worker prints short and long results.
NextPipe ==
    \/ \E timeout \in Timeouts, raw_output \in BOOLEAN :
          Execute("a", FALSE, timeout, raw_output, 1)
    \/ ExecTick
    \/ \E stdout \in PipeTexts : ExecWorkerSends(stdout, "")
    \/ \E stdout \in PipeTexts : ExecWorkerBlocks(stdout, "")
    \/ ExecWorkerTimeout

SpecPipe == Fresh /\ [][NextPipe]_vars

\* The worker has finished the operation and called pipesend.send(output)
\* before the timeout.
WorkerSending == execbox.phase = "send"

\* C35: when the operation finishes and sends its result on the pipe
\* before the timeout, timed_call returns that value and does not raise
\* TimedOut, whatever the size of the result.
C35_SentResultReturned ==
    [][ /\ (execbox'.op = "returns" /\ execbox'.ended = "ok") =>
              /\ execbox'.self.output =
                    proc_output(execbox'.stdout, execbox'.stderr)
              /\ execbox'.self.lasterror = None
        /\ (execbox'.op = "returns" /\ WorkerSending) =>
              /\ execbox'.ended = "ok"
              /\ execbox'.self.output =
                    proc_output(execbox.stdout, execbox.stderr) ]_vars

(* ------------------------------------------------------------------ *)
(* ban_add(nick, permaban=True) and ban_addperma(nick) for one nick.    *)
(* ------------------------------------------------------------------ *)
\* Result of a call that may raise: the handler as the call left it, the
\* value returned (when it did not raise) and whether it raised.
Call(a, ret, raised) == [a |-> a, ret |-> ret, raised |-> raised]

\* ban_addperma called with a single nick string: the else branch.
\* `self.banned.append(nick)` is followed by `banned.append(n)`, and n is
\* a local name bound only by the loop of the other branch: the call
\* raises UnboundLocalError before ban_save().
ban_addperma_str(a, nick) ==
    IF (nick \notin a.admins) /\ (nick \notin Range(a.banned))
    THEN Call([a EXCEPT !.banned = Append(@, nick)], <<>>, TRUE)
    ELSE Call(a, <<>>, FALSE)

\* ban_add(nick, permaban=True).
ban_add_permaban(a, nick) ==
    IF nick \in a.admins THEN Call(a, "", FALSE)
    ELSE LET r == ban_addperma_str(a, nick)
         IN  IF r.raised THEN Call(r.a, "", TRUE)
             ELSE Call(r.a, "no more.", FALSE)

\* One call of ban_addperma(nick) with a nick string.
BanAddperma(nick) ==
    /\ blocked.phase = "idle"
    /\ LET r == ban_addperma_str(admin, nick)
       IN  /\ admin' = r.a
           /\ ev' = [NoEv("ban_addperma", 0, 0) EXCEPT
                        !.nick = nick,
                        !.kind = IF r.raised THEN "raise" ELSE "value"]
    /\ UNCHANGED <<reqs, blocked, run, worker, execbox>>

\* One call of ban_add(nick, permaban=True).
BanAddPermaban(nick) ==
    /\ blocked.phase = "idle"
    /\ LET r == ban_add_permaban(admin, nick)
       IN  /\ admin' = r.a
           /\ ev' = [NoEv("ban_add", 0, 0) EXCEPT
                        !.nick = nick,
                        !.reply = IF r.raised THEN "" ELSE r.ret,
                        !.kind = IF r.raised THEN "raise" ELSE "value"]
    /\ UNCHANGED <<reqs, blocked, run, worker, execbox>>

\* SpecPerma: the two calls, between the commands, bans and unbans of the
\* running bot.
NextPerma ==
    \/ \E m \in {BanMsg, UnbanMsg} :
          Privmsg("adm", Chan, m, TRUE, MaxLive) /\ UNCHANGED <<run, execbox>>
    \/ Privmsg("u1", Chan, TimeMsg, TRUE, MaxLive) /\ UNCHANGED <<run, execbox>>
    \/ Tick /\ UNCHANGED <<run, execbox>>
    \/ \E id \in 1..MaxLive : HandleMessage(id) /\ UNCHANGED <<run, execbox>>
    \/ \E nick \in Nicks : BanAddperma(nick)
    \/ \E nick \in Nicks : BanAddPermaban(nick)

SpecPerma == Init /\ [][NextPerma]_vars

\* C36: ban_add(nick, permaban=True) and ban_addperma(nick), for a nick
\* that is neither an admin nor banned, add the nick to the ban list once,
\* save the list and return ('no more.' and [nick]) without raising.
C36_PermabanOfOneNick ==
    [][ (/\ ev'.op \in {"ban_addperma", "ban_add"}
         /\ ev'.nick \notin admin.admins
         /\ ev'.nick \notin Range(admin.banned)) =>
            /\ ev'.kind = "value"
            /\ admin'.banned = Append(admin.banned, ev'.nick)
            /\ admin'.banfile = admin'.banned
            /\ ev'.op = "ban_add" => ev'.reply = "no more."
            /\ ev'.op = "ban_addperma" =>
                  ban_addperma_str(admin, ev'.nick).ret = <<ev'.nick>> ]_vars

(* ------------------------------------------------------------------ *)
(* Admin commands and the admin set.                                    *)
(* ------------------------------------------------------------------ *)
AdminFuncs == {"admin_" \o c : c \in AdminNames}

CmdFuncs == {"cmd_" \o c : c \in CmdNames}

\* C37: parse_command gives an admin_ handler only to a sender that is in
\* the admin set at that moment; a non-admin gets a cmd_ handler or none,
\* and its message changes neither the admin set, the rate-limit flag nor
\* the blacklist setting, and the ban list by nothing but its own automatic
\* ban; a message without the command character yields no handler.
C37_AdminHandlersForAdminsOnly ==
    [][ ev'.op = "privmsg" =>
          LET nick == ev'.nick
              m == ev'.msg
              func == parse_command(admin, m, nick)
          IN  /\ func \in AdminFuncs => nick \in admin.admins
              /\ nick \notin admin.admins =>
                    /\ func \in CmdFuncs \cup {None}
                    /\ admin'.admins = admin.admins
                    /\ admin'.limit_rate = admin.limit_rate
                    /\ admin'.blacklist = admin.blacklist
                    /\ admin'.banned \in
                          {admin.banned, Append(admin.banned, nick)}
              /\ ~m.cc =>
                    /\ ev'.decision \in {"banned", "nofunc"}
                    /\ ~ev'.ran
                    /\ reqs' = reqs ]_vars

\* A non-admin has sent `limitrate -` after an admin switched rate
\* limiting off: no handler, rate limiting still off.
C37_Witness ==
    /\ ev.op = "privmsg"
    /\ ev.nick = "u1"
    /\ ev.msg = LimitMsg
    /\ ev.decision = "nofunc"
    /\ ~admin.limit_rate

(* ------------------------------------------------------------------ *)
(* Range of the in-flight counter.                                      *)
(* ------------------------------------------------------------------ *)
\* C38: handlingcount is never negative and never more than the number of
\* requests a response was scheduled for and not yet delivered, whatever
\* the interleaving of admissions, deliveries and limitrate toggles; it is
\* 0 whenever no response is pending.
C38_CountWithinPending ==
    /\ 0 <= admin.handlingcount
    /\ admin.handlingcount <= Cardinality(Pending)
    /\ Pending = {} => admin.handlingcount = 0

\* A response admitted while rate limiting was off has just been delivered
\* with the counter at 0 (handling_decrease left it there) and another
\* response is still pending.
C38_Witness ==
    /\ ev.op = "handle"
    /\ ev.seen = 0
    /\ admin.handlingcount = 0
    /\ Cardinality(Pending) >= 1

(* ------------------------------------------------------------------ *)
(* The ceiling of the in-flight counter.                                *)
(* ------------------------------------------------------------------ *)
\* Two identities that are not admins.
Users == {"u1", "u2"}

\* SpecCrowd: commands of non-admins only, rate limiting on.  Each of the
\* two sends a command of its own, so that a command following the other
\* identity's is not dropped as a duplicate; u1 sends at any time and is
\* warned and banned for it, u2 only after a response to somebody else.
NextCrowd ==
    \/ Privmsg("u1", Chan, TimeMsg, TRUE, MaxCrowd)
          /\ UNCHANGED <<run, execbox>>
    \/ /\ admin.last_nick # "u2"
       /\ Privmsg("u2", Chan, PyNone, TRUE, MaxCrowd)
       /\ UNCHANGED <<run, execbox>>
    \/ Tick /\ UNCHANGED <<run, execbox>>
    \/ \E id \in 1..MaxCrowd : HandleMessage(id) /\ UNCHANGED <<run, execbox>>

SpecCrowd == Init /\ [][NextCrowd]_vars

\* C39: with rate limiting on and only non-admins sending, handlingcount
\* never exceeds banwarn_limit + 1.
C39_CountBelowCeiling ==
    admin.limit_rate => admin.handlingcount <= banwarn_limit + 1

\* The counter is at banwarn_limit + 1 and one more command has just been
\* refused.
C39_Witness ==
    /\ admin.limit_rate
    /\ admin.handlingcount = banwarn_limit + 1
    /\ ev.op = "privmsg"
    /\ ev.decision = "busy"
    /\ Users \cap admin.admins = {}

(* ------------------------------------------------------------------ *)
(* Warning counts and the ban list.                                     *)
(* ------------------------------------------------------------------ *)
\* C40: every warning count is within 0..banwarn_limit, an identity whose
\* count is banwarn_limit is in the ban list, and no identity is in the
\* ban list more than once, under any sequence of messages, admin bans and
\* unbans.
C40_CountsAndBanList ==
    /\ \A n \in DOMAIN admin.banned_warned :
          /\ admin.banned_warned[n].count \in 0..banwarn_limit
          /\ admin.banned_warned[n].count = banwarn_limit
                => n \in Range(admin.banned)
    /\ \A i, j \in DOMAIN admin.banned :
          i # j => admin.banned[i] # admin.banned[j]

\* A warned identity was banned by an admin and has just been unbanned:
\* its entry is back at 0 and the ban list is empty.
C40_Witness ==
    /\ ev.op = "privmsg"
    /\ ev.msg = UnbanMsg
    /\ ev.reply = ""
    /\ "u1" \in DOMAIN admin.banned_warned
    /\ admin.banned_warned["u1"].count = 0
    /\ admin.banned = <<>>

============================================================================
